---- MODULE Spec2Model ----
(***************************************************************************)
(* Model of the tinge retrieval service (retrieval-service/app):           *)
(*   indexing.py  _chunk_text, load_corpus_records, build_chunk_records    *)
(*   search.py    RetrievalService: _run_legacy_bm25, _run_pipeline_bm25,  *)
(*                _run_pipeline_dense, _rrf_merge_documents, search        *)
(*                ping, index_corpus, _reset_index_hard                    *)
(*   main.py      the /health, /index and /search endpoints                *)
(* Strings are sequences of one-character strings.  Hits are records.     *)
(***************************************************************************)
EXTENDS Integers, Sequences, FiniteSets, TLC

VARIABLES
    \* ---- _chunk_text (indexing.py:6-21) ----
    text,            \* argument
    chunk_size,      \* argument
    chunk_overlap,   \* argument
    normalized,      \* local: " ".join(text.split())
    chunks,          \* local: the list being built
    start,           \* local: window start
    spans,           \* history: <<start, end>> of every window appended
    chunk_pc,        \* "call" | "loop" | "returned"
    \* ---- _rrf_merge_documents (search.py:413-443) ----
    ranked_lists,    \* argument: <<name, docs>> pairs
    fused_docs,      \* return value
    rrf_pc,          \* "call" | "returned"
    \* ---- _run_legacy_bm25 (search.py:298-310) ----
    legacy_answers,  \* what self._retriever.run returns, one list per query
    legacy_merged,   \* return value
    legacy_pc,       \* "call" | "returned"
    \* ---- load_corpus_records, build_chunk_records (indexing.py:24-58) ----
    corpus_file,     \* the file at the path: does it exist, and its lines
    corpus_args,     \* chunk_size and chunk_overlap
    corpus_out,      \* how load_corpus_records ended: exception or records
    corpus_built,    \* how build_chunk_records ended: exception or chunk records
    corpus_pc,       \* "call" | "loaded" | "built" | "returned"
    \* ---- RetrievalService and the /search endpoint ----
    settings,        \* config.py: the Settings read from the environment
    svc,             \* the RetrievalService object's fields (TRUE: not None)
    pc,              \* position of the search request: "idle" | "bm25" | "dense" | "done"
    req,             \* search(): the arguments language and top_k
    k,               \* search(): local k
    queries,         \* search(): local queries
    bm25_docs,       \* search(): local bm25_docs
    bm25_how,        \* history: the path that produced bm25_docs
    dense_docs,      \* search(): local dense_docs
    dense_how,       \* history: how _run_pipeline_dense ended
    response,        \* what the /search endpoint answers
    \* ---- the /index and /health endpoints ----
    es_index,        \* the documents the Elasticsearch index holds
    index_pc,        \* "idle" | "reset" | "write" | "done" | "health"
    index_req,       \* index_corpus(): the file at path, recreate_index, chunk sizes
    index_records,   \* index_corpus(): local records
    index_chunks,    \* index_corpus(): local chunks
    index_response,  \* what the /index endpoint answers
    health_response, \* what the /health endpoint answers
    index_before,    \* history: the index when the index request arrived
    \* ---- the request body of /search (models.py:25-29) ----
    search_raw,      \* history: the body as received, before validation
    \* ---- the configuration (config.py) ----
    environ,         \* os.environ: the variables the model varies
    config_pc,       \* "env", "loaded", "constructed", "searched"
    \* ---- the lexical branch against a store (search.py:288-358) ----
    store_hits,      \* the store: for each query string its ranked hits
    retriever_calls, \* history: the retriever runs made, in order
    branch_top_k,    \* _run_pipeline_bm25(): local branch_top_k (0: not computed)
    branch_pc,       \* "call" | "returned"
    \* ---- two searches running at once (main.py:43-56, search.py:445-500) ----
    lexical_store,   \* what the BM25 retriever finds for each query
    dense_store,     \* what the embedding retriever finds for each query
    threads,         \* the locals of search() in each worker thread
    heap             \* the Document objects the retriever runs have created

chunk_vars == <<text, chunk_size, chunk_overlap, normalized, chunks, start, spans, chunk_pc>>

rrf_vars == <<ranked_lists, fused_docs, rrf_pc>>

legacy_vars == <<legacy_answers, legacy_merged, legacy_pc>>

corpus_vars == <<corpus_file, corpus_args, corpus_out, corpus_built, corpus_pc>>

service_vars == <<settings, svc, pc, req, k, queries, bm25_docs, bm25_how,
                  dense_docs, dense_how, response>>

index_vars == <<es_index, index_pc, index_req, index_records, index_chunks,
                index_response, health_response, index_before>>

boundary_vars == <<search_raw>>

config_vars == <<environ, config_pc>>

branch_vars == <<store_hits, retriever_calls, branch_top_k, branch_pc>>

thread_vars == <<lexical_store, dense_store, threads, heap>>

vars == <<chunk_vars, rrf_vars, legacy_vars, corpus_vars, service_vars, index_vars,
          boundary_vars, config_vars, branch_vars, thread_vars>>

\* ------------------------------------------------------------------ bounds

MaxTextLen == 5
MaxChunkSize == 3
MaxChunkOverlap == 3
MaxRank == 3
MaxBranchHits == 2
MaxHits == 2
MaxAnswerHits == 1
MaxDenseHits == 1
MaxLines == 2
MaxIndexLines == 1
MaxStoreHits == 2

\* ------------------------------------------------------------ generic helpers

Min(a, b) == IF a < b THEN a ELSE b
Max(a, b) == IF a > b THEN a ELSE b

\* all sequences over S of length at most n
SeqsUpTo(S, n) == UNION {[1..m -> S] : m \in 0..n}

\* Python slice s[a:b] for 0 <= a, with b clamped to len(s)
Slice(s, a, b) == SubSeq(s, a + 1, Min(b, Len(s)))

\* ------------------------------------------------------------ _chunk_text

Chars == {"a", "b", " "}
Texts == SeqsUpTo(Chars, MaxTextLen)

\* str.split(): the maximal runs of non-whitespace characters, in order
RECURSIVE SplitFrom(_, _, _)
SplitFrom(s, i, cur) ==
    IF i > Len(s)
    THEN (IF cur = <<>> THEN <<>> ELSE <<cur>>)
    ELSE IF s[i] = " "
         THEN (IF cur = <<>> THEN <<>> ELSE <<cur>>) \o SplitFrom(s, i + 1, <<>>)
         ELSE SplitFrom(s, i + 1, Append(cur, s[i]))

split(s) == SplitFrom(s, 1, <<>>)

\* " ".join(words)
RECURSIVE join(_)
join(words) ==
    IF words = <<>> THEN <<>>
    ELSE IF Len(words) = 1 THEN words[1]
    ELSE words[1] \o <<" ">> \o join(Tail(words))

Normalize(s) == join(split(s))

\* mutants of the step: the overlap added instead of subtracted; the overlap
\* ignored; the step not kept positive
ChunkStepGapMutant(size, overlap) == Max(1, size + overlap)
ChunkStepNoOverlapMutant(size, overlap) == Max(1, size)
ChunkStepNoFloorMutant(size, overlap) == size - overlap
\* line 13: step = max(1, chunk_size - chunk_overlap)
ChunkStep(size, overlap) == Max(1, size - overlap)

\* line 16: end = min(text_len, start + chunk_size)
ChunkEnd(len, st, size) == Min(len, st + size)

ChunkIdle ==
    /\ text = <<>>
    /\ chunk_size = 1
    /\ chunk_overlap = 0
    /\ normalized = <<>>
    /\ chunks = <<>>
    /\ start = 0
    /\ spans = <<>>
    /\ chunk_pc = "returned"

ChunkInit ==
    /\ text \in Texts
    /\ chunk_size \in 1..MaxChunkSize
    /\ chunk_overlap \in 0..MaxChunkOverlap
    /\ normalized = <<>>
    /\ chunks = <<>>
    /\ start = 0
    /\ spans = <<>>
    /\ chunk_pc = "call"

\* lines 7-12: normalise; empty text returns []
ChunkEnter ==
    /\ chunk_pc = "call"
    /\ normalized' = Normalize(text)
    /\ chunks' = <<>>
    /\ start' = 0
    /\ spans' = <<>>
    /\ chunk_pc' = IF normalized' = <<>> THEN "returned" ELSE "loop"
    /\ UNCHANGED <<text, chunk_size, chunk_overlap>>

\* lines 15-20: one evaluation of the while condition and, if true, the body
ChunkIterate ==
    /\ chunk_pc = "loop"
    /\ LET text_len == Len(normalized)
           step == ChunkStep(chunk_size, chunk_overlap)
           end == ChunkEnd(text_len, start, chunk_size)
       IN IF start < text_len
          THEN /\ chunks' = Append(chunks, Slice(normalized, start, end))
               /\ spans' = Append(spans, <<start, end>>)
               /\ IF end >= text_len
                  THEN chunk_pc' = "returned" /\ start' = start
                  ELSE chunk_pc' = "loop" /\ start' = start + step
          ELSE /\ chunk_pc' = "returned"
               /\ UNCHANGED <<chunks, spans, start>>
    /\ UNCHANGED <<text, chunk_size, chunk_overlap, normalized>>


\* ------------------------------------------------------------ hits

\* A hit (haystack Document) is a record with at least chunk_id and score;
\* chunk_id "" stands for a meta without chunk_id (None or empty: both falsy).
\* Hits that lack chunk_id also lack doc_id in this model.
NoChunkId == ""

\* search.py:293-296
DocChunkId(doc) ==
    IF doc.chunk_id = NoChunkId THEN "unknown::chunk::na" ELSE doc.chunk_id

\* float(doc.score or 0.0); retrievers return numeric scores
FloatScore(doc) == doc.score

\* sorted(items, key=score, reverse=True): Python's sort is stable, and
\* reverse=True keeps the original order of equal keys.
RECURSIVE InsertDescTiesFirstMutant(_, _)
InsertDescTiesFirstMutant(sorted, x) ==
    IF sorted = <<>> THEN <<x>>
    ELSE IF Head(sorted).score > x.score
         THEN <<Head(sorted)>> \o InsertDescTiesFirstMutant(Tail(sorted), x)
         ELSE <<x>> \o sorted

RECURSIVE InsertDesc(_, _)
InsertDesc(sorted, x) ==
    IF sorted = <<>> THEN <<x>>
    ELSE IF Head(sorted).score >= x.score
         THEN <<Head(sorted)>> \o InsertDesc(Tail(sorted), x)
         ELSE <<x>> \o sorted

RECURSIVE SortedDesc(_)
SortedDesc(items) ==
    IF items = <<>> THEN <<>>
    ELSE InsertDesc(SortedDesc(SubSeq(items, 1, Len(items) - 1)), items[Len(items)])

\* ------------------------------------------------------------ _rrf_merge_documents

MetaChunkIds == {"d1::chunk::0", "d1::chunk::1", "d2::chunk::0", NoChunkId}

\* search.py:414  k = 60.0
RRFK == 60

\* Fused scores are exact rationals, kept as integers over the common
\* denominator RRFScale = (k+1)(k+2)...(k+RankLimit).
RankLimit == Max(MaxRank, Max(MaxHits, MaxDenseHits))

RECURSIVE ProdTo(_)
ProdTo(n) == IF n = 0 THEN 1 ELSE (RRFK + n) * ProdTo(n - 1)

RRFScale == ProdTo(RankLimit)

\* mutant: ranks counted from 0 (enumerate without start=1)
RRFTermRankFromZeroMutant(rank) == RRFScale \div (RRFK + rank - 1)
\* line 422: 1.0 / (k + rank)
RRFTerm(rank) == RRFScale \div (RRFK + rank)

\* dict.get / dict[key] = value on a dict kept as its items in insertion order
DictHas(items, key) == \E i \in 1..Len(items) : items[i].chunk_id = key

DictScore(items, key, default) ==
    IF DictHas(items, key)
    THEN items[CHOOSE i \in 1..Len(items) : items[i].chunk_id = key].score
    ELSE default

DictSetScore(items, key, value) ==
    IF DictHas(items, key)
    THEN [i \in 1..Len(items) |->
            IF items[i].chunk_id = key THEN [items[i] EXCEPT !.score = value] ELSE items[i]]
    ELSE Append(items, [chunk_id |-> key, score |-> value])

\* lines 420-425: the inner loop over one ranked list, from position `rank` on.
\* acc = [scores |-> items of `scores`, docs_by_chunk |-> function chunk_id -> doc]
RECURSIVE RRFWalk(_, _, _)
RRFWalk(ranked_docs, rank, acc) ==
    IF rank > Len(ranked_docs) THEN acc
    ELSE LET doc == ranked_docs[rank]
             chunk_id == DocChunkId(doc)
             scores1 == DictSetScore(acc.scores, chunk_id,
                                     DictScore(acc.scores, chunk_id, 0) + RRFTerm(rank))
             docs1 == IF chunk_id \in DOMAIN acc.docs_by_chunk
                      THEN acc.docs_by_chunk
                      ELSE [c \in (DOMAIN acc.docs_by_chunk) \cup {chunk_id} |->
                               IF c = chunk_id THEN doc ELSE acc.docs_by_chunk[c]]
         IN RRFWalk(ranked_docs, rank + 1, [scores |-> scores1, docs_by_chunk |-> docs1])

\* line 419: the outer loop over the ranked lists, from list `l` on
RECURSIVE RRFLists(_, _, _)
RRFLists(lists, l, acc) ==
    IF l > Len(lists) THEN acc
    ELSE RRFLists(lists, l + 1, RRFWalk(lists[l][2], 1, acc))

\* lines 413-443
rrf_merge_documents(lists) ==
    LET acc == RRFLists(lists, 1, [scores |-> <<>>, docs_by_chunk |-> <<>>])
        ordered == SortedDesc(acc.scores)
    IN [i \in 1..Len(ordered) |->
          [acc.docs_by_chunk[ordered[i].chunk_id] EXCEPT !.score = ordered[i].score]]

\* The hits of one input list: the object at position i of list `name` is
\* distinguishable (obj) and carries a retriever score that falls with rank.
RankedHits(name, ids) ==
    [i \in 1..Len(ids) |->
        [chunk_id |-> ids[i], score |-> Len(ids) + 1 - i, obj |-> <<name, i>>]]

RRFIdle ==
    /\ ranked_lists = <<>>
    /\ fused_docs = <<>>
    /\ rrf_pc = "returned"

RRFInit ==
    /\ \E ids1 \in SeqsUpTo(MetaChunkIds, MaxRank) :
       \E ids2 \in SeqsUpTo(MetaChunkIds, MaxRank) :
          ranked_lists = << <<"bm25", RankedHits("bm25", ids1)>>,
                            <<"dense", RankedHits("dense", ids2)>> >>
    /\ fused_docs = <<>>
    /\ rrf_pc = "call"

RRFMerge ==
    /\ rrf_pc = "call"
    /\ fused_docs' = rrf_merge_documents(ranked_lists)
    /\ rrf_pc' = "returned"
    /\ UNCHANGED ranked_lists



\* ---- statements about _rrf_merge_documents

RRFInputList(l) == ranked_lists[l][2]

RRFInputChunkIds ==
    {DocChunkId(RRFInputList(l)[p]) : <<l, p>> \in
        {lp \in (1..Len(ranked_lists)) \X (1..MaxRank) : lp[2] <= Len(RRFInputList(lp[1]))}}

\* every place <<list, rank>> where chunk id c occurs
RRFOccurrences(c) ==
    {lp \in (1..Len(ranked_lists)) \X (1..MaxRank) :
        /\ lp[2] <= Len(RRFInputList(lp[1]))
        /\ DocChunkId(RRFInputList(lp[1])[lp[2]]) = c}

\* the lists that contain c, each with the rank at which c first stands in it
RRFFirstRanks(c) ==
    {lp \in RRFOccurrences(c) : \A q \in RRFOccurrences(c) : q[1] = lp[1] => lp[2] <= q[2]}

\* sum of 1/(60 + rank) over a set of <<list, rank>> places, over RRFScale
RECURSIVE SumOfTerms(_)
SumOfTerms(places) ==
    IF places = {} THEN 0
    ELSE LET lp == CHOOSE x \in places : TRUE
         IN (RRFScale \div (60 + lp[2])) + SumOfTerms(places \ {lp})

\* no chunk id stands twice in the same input list
RRFNoRepeats == \A c \in RRFInputChunkIds : RRFOccurrences(c) = RRFFirstRanks(c)

RRFOutputIndex(c) == CHOOSE i \in 1..Len(fused_docs) : DocChunkId(fused_docs[i]) = c

\* one output hit per distinct chunk id, ordered by fused score descending
RRFOneHitEachSorted ==
    /\ \A c \in RRFInputChunkIds :
          Cardinality({i \in 1..Len(fused_docs) : DocChunkId(fused_docs[i]) = c}) = 1
    /\ \A i \in 1..Len(fused_docs) : DocChunkId(fused_docs[i]) \in RRFInputChunkIds
    /\ \A i \in 1..(Len(fused_docs) - 1) : fused_docs[i].score >= fused_docs[i + 1].score

\* each output score is the sum over the lists containing the chunk of
\* 1/(60 + rank); a chunk at rank 1 in both lists scores 2/61 and stands ahead
\* of every chunk found in one list only; with an empty second list the output
\* keeps the first list's order
RRFPerListScores ==
    /\ \A i \in 1..Len(fused_docs) :
          fused_docs[i].score = SumOfTerms(RRFFirstRanks(DocChunkId(fused_docs[i])))
    /\ \A c \in RRFInputChunkIds :
          ({<<1, 1>>, <<2, 1>>} \subseteq RRFOccurrences(c)) =>
              /\ fused_docs[RRFOutputIndex(c)].score * 61 = 2 * RRFScale
              /\ \A d \in RRFInputChunkIds :
                    (Cardinality({lp[1] : lp \in RRFOccurrences(d)}) = 1)
                        => RRFOutputIndex(c) < RRFOutputIndex(d)
    /\ (RRFInputList(2) = <<>>) =>
          \A c, d \in RRFInputChunkIds :
              (\E lp \in RRFFirstRanks(c) : \E lq \in RRFFirstRanks(d) : lp[2] < lq[2])
                  => RRFOutputIndex(c) < RRFOutputIndex(d)

\* C3 as stated: for ANY input ranked lists the fused score is the per-list
\* sum of 1/(60 + rank), a chunk at rank 1 in both lists scores 2/61 and leads
\* every single-list chunk, and fusing with an empty list keeps the order.
C3_Original ==
    (rrf_pc = "returned") => (RRFOneHitEachSorted /\ RRFPerListScores)

\* C3 (amended): for any input ranked lists every distinct chunk id gets
\* exactly one output hit, whose score is the sum of 1/(60 + rank) over EVERY
\* occurrence of the chunk id in the lists, and the output is ordered by that
\* score descending; when no list holds a chunk id twice, the score is the sum
\* over the lists that contain the chunk, a chunk at rank 1 in both lists
\* scores 2/61 and stands ahead of every chunk found in one list only, and
\* fusing a list with an empty list keeps that list's order.
C3_RRFScores ==
    (rrf_pc = "returned") =>
        /\ RRFOneHitEachSorted
        /\ \A i \in 1..Len(fused_docs) :
              fused_docs[i].score = SumOfTerms(RRFOccurrences(DocChunkId(fused_docs[i])))
        /\ RRFNoRepeats => RRFPerListScores

\* C3's case: two repeat-free lists with the same chunk at rank 1, and another
\* chunk found in one list only.
C3_Witness ==
    /\ rrf_pc = "returned"
    /\ RRFNoRepeats
    /\ Len(RRFInputList(1)) >= 2
    /\ Len(RRFInputList(2)) >= 2
    /\ DocChunkId(RRFInputList(1)[1]) = DocChunkId(RRFInputList(2)[1])
    /\ \E d \in RRFInputChunkIds : Cardinality({lp[1] : lp \in RRFOccurrences(d)}) = 1
    /\ Len(fused_docs) >= 3

\* the first place, walking list 1 then list 2 top to bottom, where c is seen
RRFFirstSeen(c) ==
    CHOOSE lp \in RRFOccurrences(c) :
        \A q \in RRFOccurrences(c) : lp[1] < q[1] \/ (lp[1] = q[1] /\ lp[2] <= q[2])

RRFSeenBefore(lp, lq) == lp[1] < lq[1] \/ (lp[1] = lq[1] /\ lp[2] < lq[2])

\* C4: in the output of _rrf_merge_documents two chunks with equal fused score
\* stand in the order in which their chunk ids were first seen (first list
\* before second, each list top to bottom), and the hit kept for a chunk is the
\* first-seen hit object with only its score replaced by the fused score.
C4_TiesFirstSeen ==
    (rrf_pc = "returned") =>
        /\ \A i, j \in 1..Len(fused_docs) :
              (i < j /\ fused_docs[i].score = fused_docs[j].score) =>
                  RRFSeenBefore(RRFFirstSeen(DocChunkId(fused_docs[i])),
                                RRFFirstSeen(DocChunkId(fused_docs[j])))
        /\ \A i \in 1..Len(fused_docs) :
              LET lp == RRFFirstSeen(DocChunkId(fused_docs[i]))
                  first == RRFInputList(lp[1])[lp[2]]
              IN /\ fused_docs[i].obj = first.obj
                 /\ fused_docs[i] = [first EXCEPT !.score = fused_docs[i].score]
                 /\ fused_docs[i].score # first.score

\* C4's case: two chunks tie (one is first of list 1 only, the other first of
\* list 2 only) and a chunk stands in both lists, so a first-seen and a later
\* hit object exist for it.
C4_Witness ==
    /\ rrf_pc = "returned"
    /\ \E i \in 1..(Len(fused_docs) - 1) :
          /\ fused_docs[i].score = fused_docs[i + 1].score
          /\ fused_docs[i].obj[1] = "bm25"
          /\ fused_docs[i + 1].obj[1] = "dense"
    /\ \E c \in RRFInputChunkIds :
          Cardinality({lp[1] : lp \in RRFOccurrences(c)}) = 2

\* ------------------------------------------------------------ _run_legacy_bm25

\* mutant: every later hit of a chunk replaces the kept one
LegacyReplacesAlwaysMutant(doc, existing) == TRUE
\* line 307: float(doc.score or 0.0) > float(existing.score or 0.0)
LegacyReplaces(doc, existing) == FloatScore(doc) > FloatScore(existing)

\* lines 304-308: merged is an OrderedDict keyed by chunk id, kept as its values
\* in insertion order; assigning to a key that is present keeps its position.
RECURSIVE LegacyWalk(_, _, _)
LegacyWalk(docs, i, merged) ==
    IF i > Len(docs) THEN merged
    ELSE LET doc == docs[i]
             key == DocChunkId(doc)
             at == {j \in 1..Len(merged) : DocChunkId(merged[j]) = key}
             merged1 ==
                 IF at = {} THEN Append(merged, doc)
                 ELSE LET j == CHOOSE x \in at : TRUE
                      IN IF LegacyReplaces(doc, merged[j])
                         THEN [merged EXCEPT ![j] = doc]
                         ELSE merged
         IN LegacyWalk(docs, i + 1, merged1)

\* lines 301-303: one retriever call per query, in order
RECURSIVE LegacyQueries(_, _, _)
LegacyQueries(answers, q, merged) ==
    IF q > Len(answers) THEN merged
    ELSE LegacyQueries(answers, q + 1, LegacyWalk(answers[q], 1, merged))

\* lines 298-310; answers[q] is the retriever's answer to queries[q]
run_legacy_bm25(answers) == SortedDesc(LegacyQueries(answers, 1, <<>>))

LegacyChunkIds == {"d1::chunk::0", "d2::chunk::0", NoChunkId}
\* retriever scores in tenths: 0.4 and 0.7
LegacyScores == {4, 7}
LegacyHits == [chunk_id : LegacyChunkIds, score : LegacyScores]
LegacyLists == SeqsUpTo(LegacyHits, MaxBranchHits)

LegacyIdle ==
    /\ legacy_answers = <<>>
    /\ legacy_merged = <<>>
    /\ legacy_pc = "returned"

\* one query, or two (original and translated)
LegacyInit ==
    /\ legacy_answers \in {<<a>> : a \in LegacyLists}
                           \cup {<<a, b>> : <<a, b>> \in LegacyLists \X LegacyLists}
    /\ legacy_merged = <<>>
    /\ legacy_pc = "call"

LegacyRun ==
    /\ legacy_pc = "call"
    /\ legacy_merged' = run_legacy_bm25(legacy_answers)
    /\ legacy_pc' = "returned"
    /\ UNCHANGED legacy_answers


\* every hit any query returned
LegacyReturned ==
    {legacy_answers[q][i] : <<q, i>> \in
        {qi \in (1..Len(legacy_answers)) \X (1..MaxBranchHits) :
            qi[2] <= Len(legacy_answers[qi[1]])}}

ChunkPre == chunk_size > 0 /\ 0 <= chunk_overlap /\ chunk_overlap < chunk_size

\* C1: under the precondition, the chunks returned by _chunk_text cover the
\* whitespace-normalized text exactly: an empty normalized text gives no chunk;
\* otherwise the first window starts at offset 0, the last window ends at the
\* end of the text, every window starts no later than the end of the previous
\* one, every chunk is the substring at its window, every character of the text
\* lies in some chunk, and no chunk is longer than chunk_size.
C1_ChunksCoverText ==
    (chunk_pc = "returned" /\ ChunkPre) =>
        IF Normalize(text) = <<>>
        THEN chunks = <<>>
        ELSE /\ normalized = Normalize(text)
             /\ Len(chunks) >= 1
             /\ Len(spans) = Len(chunks)
             /\ spans[1][1] = 0
             /\ spans[Len(spans)][2] = Len(normalized)
             /\ \A i \in 1..(Len(chunks) - 1) : spans[i + 1][1] <= spans[i][2]
             /\ \A i \in 1..Len(chunks) :
                    /\ chunks[i] = SubSeq(normalized, spans[i][1] + 1, spans[i][2])
                    /\ Len(chunks[i]) <= chunk_size
                    /\ Len(chunks[i]) >= 1
             /\ \A p \in 1..Len(normalized) :
                    \E i \in 1..Len(chunks) :
                        /\ spans[i][1] < p
                        /\ p <= spans[i][2]
                        /\ chunks[i][p - spans[i][1]] = normalized[p]

\* A run of C1's case: a text with collapsed whitespace cut into three or more
\* overlapping windows.
C1_Witness ==
    /\ chunk_pc = "returned"
    /\ ChunkPre
    /\ chunk_overlap >= 1
    /\ Len(chunks) >= 3
    /\ normalized # text

\* C2: under the precondition, consecutive chunks share exactly chunk_overlap
\* characters (the windows overlap by chunk_overlap positions and the last
\* chunk_overlap characters of chunk i are the first chunk_overlap characters
\* of chunk i+1), and every chunk but the final one has length chunk_size.
C2_ConsecutiveOverlap ==
    (chunk_pc = "returned" /\ ChunkPre) =>
        \A i \in 1..(Len(chunks) - 1) :
            /\ Len(chunks[i]) = chunk_size
            /\ spans[i][2] - spans[i + 1][1] = chunk_overlap
            /\ Len(chunks[i + 1]) >= chunk_overlap
            /\ SubSeq(chunks[i], chunk_size - chunk_overlap + 1, chunk_size)
                 = SubSeq(chunks[i + 1], 1, chunk_overlap)

\* A run of C2's case: overlapping windows whose final chunk is shorter.
C2_Witness ==
    /\ chunk_pc = "returned"
    /\ ChunkPre
    /\ chunk_overlap >= 1
    /\ Len(chunks) >= 2
    /\ Len(chunks[Len(chunks)]) < chunk_size

\* C29: _chunk_text terminates for every text, every chunk_size >= 1 and every
\* chunk_overlap >= 0, also with chunk_overlap >= chunk_size: the call returns;
\* the window start advances by at least 1 with every iteration that stays in
\* the loop; the loop stops at the first window that reaches the end of the
\* text; and that window, shorter than chunk_size or not, is the last chunk.
C29_ChunkTextTerminates ==
    /\ <>(chunk_pc = "returned")
    /\ [][(chunk_pc = "loop" /\ chunk_pc' = "loop") => start' >= start + 1]_vars
    /\ [](chunk_pc \in {"loop", "returned"} =>
            \A i \in 1..Len(spans) :
                /\ (i < Len(spans)) => spans[i][2] < Len(normalized)
                /\ (chunk_pc = "loop") => spans[i][2] < Len(normalized)
                /\ chunks[i] = SubSeq(normalized, spans[i][1] + 1, spans[i][2]))
    /\ []((chunk_pc = "returned" /\ normalized # <<>>) =>
            /\ Len(chunks) >= 1
            /\ Len(spans) = Len(chunks)
            /\ spans[Len(spans)][2] = Len(normalized))

\* a call with chunk_overlap >= chunk_size returned several chunks
C29_Witness ==
    /\ chunk_pc = "returned"
    /\ chunk_overlap >= chunk_size
    /\ Len(chunks) >= 3

\* ------------------------------------------------------------ the corpus loader

\* A corpus record is a JSON object: fields names the keys the object has,
\* and a key it lacks holds the placeholder below.  title, url, source and
\* published_at are read like language, with rec.get and a default.
NoId == ""
NoContent == <<>>
NoRecLanguage == ""
CorpusIds == {"d1", "d2"}
CorpusContents == {<<"a">>, <<"a", "b", "a">>}
CorpusLanguages == {"es"}
CorpusRecords ==
    { [fields |-> f,
       id |-> i,
       content |-> c,
       language |-> l] :
        f \in SUBSET {"id", "content", "language"},
        i \in CorpusIds \cup {NoId},
        c \in CorpusContents \cup {NoContent},
        l \in CorpusLanguages \cup {NoRecLanguage} }
WellFormedRecords ==
    { r \in CorpusRecords :
        /\ ("id" \in r.fields) <=> (r.id # NoId)
        /\ ("content" \in r.fields) <=> (r.content # NoContent)
        /\ ("language" \in r.fields) <=> (r.language # NoRecLanguage) }
NoRecord == [fields |-> {}, id |-> NoId, content |-> NoContent, language |-> NoRecLanguage]

\* The lines of a corpus file: whitespace only ("blank"), malformed JSON
\* ("bad"), JSON nested deeper than the decoder's recursion limit ("deep"),
\* or a JSON object.
CorpusLines ==
    { [kind |-> "object", rec |-> r] : r \in WellFormedRecords }
      \cup { [kind |-> kd, rec |-> NoRecord] : kd \in {"blank", "bad", "deep"} }
CorpusFiles ==
    { [exists |-> TRUE, lines |-> ls] : ls \in SeqsUpTo(CorpusLines, MaxLines) }
      \cup { [exists |-> FALSE, lines |-> <<>>] }
\* scale model of models.py:15-16 (chunk_size 200..2000, chunk_overlap 0..400)
CorpusArgs == [chunk_size : {2}, chunk_overlap : {0, 1}]

NoError == "none"
Failed(error) == [raised |-> error, value |-> <<>>]
Succeeded(value) == [raised |-> NoError, value |-> value]

\* rec.get(key, default) for the keys of the model
GetContent(rec) == IF "content" \in rec.fields THEN rec.content ELSE <<>>
GetLanguage(rec) == IF "language" \in rec.fields THEN rec.language ELSE "en"

\* line 35: json.loads(line); RecursionError is a RuntimeError
json_loads(line) ==
    IF line.kind = "bad" THEN Failed("JSONDecodeError")
    ELSE IF line.kind = "deep" THEN Failed("RecursionError")
    ELSE Succeeded(line.rec)

\* mutant: a line that does not parse is skipped
LoadLineSkipsMalformedMutant(line, records) ==
    IF line.kind = "blank" THEN Succeeded(records)
    ELSE IF json_loads(line).raised # NoError THEN Succeeded(records)
    ELSE Succeeded(Append(records, json_loads(line).value))
\* lines 32-35: one line of the file
LoadLine(line, records) ==
    IF line.kind = "blank" THEN Succeeded(records)
    ELSE IF json_loads(line).raised # NoError THEN Failed(json_loads(line).raised)
    ELSE Succeeded(Append(records, json_loads(line).value))

\* lines 29-36
RECURSIVE LoadWalk(_, _, _)
LoadWalk(lines, i, records) ==
    IF i > Len(lines) THEN Succeeded(records)
    ELSE LET out == LoadLine(lines[i], records)
         IN IF out.raised # NoError THEN out
            ELSE LoadWalk(lines, i + 1, out.value)

\* lines 24-36
load_corpus_records(file) ==
    IF ~file.exists THEN Failed("FileNotFoundError")
    ELSE LoadWalk(file.lines, 1, <<>>)

\* indexing.py:6-21 as a function: the windows of the normalized text
RECURSIVE ChunkLoop(_, _, _, _, _)
ChunkLoop(norm, st, size, overlap, acc) ==
    IF st < Len(norm)
    THEN LET end == ChunkEnd(Len(norm), st, size)
             acc1 == Append(acc, Slice(norm, st, end))
         IN IF end >= Len(norm) THEN acc1
            ELSE ChunkLoop(norm, st + ChunkStep(size, overlap), size, overlap, acc1)
    ELSE acc

chunk_text(txt, size, overlap) ==
    IF Normalize(txt) = <<>> THEN <<>>
    ELSE ChunkLoop(Normalize(txt), 0, size, overlap, <<>>)

\* lines 45-57: the chunk record of chunk idx (from 0) of rec
ChunkRecord(rec, idx, chunk) ==
    [ chunk_id |-> rec.id \o "::chunk::" \o ToString(idx),
      doc_id |-> rec.id,
      chunk_index |-> idx,
      content |-> chunk,
      language |-> GetLanguage(rec) ]

\* lines 42-57: the chunk records of one record; rec['id'] raises KeyError,
\* and is evaluated only when the content gives a chunk
RecordChunks(rec, size, overlap) ==
    LET cs == chunk_text(GetContent(rec), size, overlap)
    IN IF cs # <<>> /\ "id" \notin rec.fields THEN Failed("KeyError")
       ELSE Succeeded([i \in 1..Len(cs) |-> ChunkRecord(rec, i - 1, cs[i])])

\* lines 39-58
RECURSIVE BuildWalk(_, _, _, _, _)
BuildWalk(records, i, size, overlap, acc) ==
    IF i > Len(records) THEN Succeeded(acc)
    ELSE LET out == RecordChunks(records[i], size, overlap)
         IN IF out.raised # NoError THEN out
            ELSE BuildWalk(records, i + 1, size, overlap, acc \o out.value)

build_chunk_records(records, size, overlap) == BuildWalk(records, 1, size, overlap, <<>>)

NotRun == [raised |-> NoError, value |-> <<>>]

CorpusIdle ==
    /\ corpus_file = [exists |-> FALSE, lines |-> <<>>]
    /\ corpus_args = [chunk_size |-> 2, chunk_overlap |-> 0]
    /\ corpus_out = NotRun
    /\ corpus_built = NotRun
    /\ corpus_pc = "returned"

CorpusInit ==
    /\ corpus_file \in CorpusFiles
    /\ corpus_args \in CorpusArgs
    /\ corpus_out = NotRun
    /\ corpus_built = NotRun
    /\ corpus_pc = "call"

\* search.py:214: records = load_corpus_records(path)
CorpusLoad ==
    /\ corpus_pc = "call"
    /\ corpus_out' = load_corpus_records(corpus_file)
    /\ corpus_pc' = IF corpus_out'.raised # NoError THEN "returned" ELSE "loaded"
    /\ UNCHANGED <<corpus_file, corpus_args, corpus_built>>

\* search.py:215: chunks = build_chunk_records(records, chunk_size, chunk_overlap)
CorpusBuild ==
    /\ corpus_pc = "loaded"
    /\ corpus_built' = build_chunk_records(corpus_out.value, corpus_args.chunk_size,
                                           corpus_args.chunk_overlap)
    /\ corpus_pc' = "built"
    /\ UNCHANGED <<corpus_file, corpus_args, corpus_out>>

\* ------------------------------------------------------------ statements about the corpus

NonBlankLines == SelectSeq(corpus_file.lines, LAMBDA line : line.kind # "blank")
Malformed(line) == line.kind = "bad"
RequiredFields == {"id", "content", "language"}

\* C17: load_corpus_records is all-or-nothing: a path that does not exist
\* fails with FileNotFoundError; a file with a malformed non-blank line fails
\* and returns no record (with the JSON parse error, when the malformed line is
\* the first one the decoder gives up on); otherwise the result is one record
\* per non-blank line, in file order.
C17_LoadAllOrNothing ==
    (corpus_pc # "call") =>
        /\ ~corpus_file.exists => corpus_out = Failed("FileNotFoundError")
        /\ (\E i \in 1..Len(NonBlankLines) : Malformed(NonBlankLines[i])) =>
              /\ corpus_out.raised \in {"JSONDecodeError", "RecursionError"}
              /\ corpus_out.value = <<>>
              /\ corpus_pc = "returned"
              /\ (\A i \in 1..Len(NonBlankLines) : NonBlankLines[i].kind # "deep") =>
                    corpus_out.raised = "JSONDecodeError"
        /\ (corpus_file.exists
               /\ \A i \in 1..Len(NonBlankLines) : NonBlankLines[i].kind = "object") =>
              corpus_out = Succeeded([i \in 1..Len(NonBlankLines) |-> NonBlankLines[i].rec])

\* C17's case: the first line is a record, the second is malformed, and the
\* load has failed without a record.
C17_Witness ==
    /\ corpus_pc = "returned"
    /\ Len(corpus_file.lines) = 2
    /\ corpus_file.lines[1].kind = "object"
    /\ corpus_file.lines[2].kind = "bad"
    /\ corpus_out = Failed("JSONDecodeError")

\* C18: every record the loader hands to the chunker has the required
\* DocumentRecord fields; a line that parses but lacks one is not accepted.
C18_LoaderValidatesFields ==
    (corpus_pc \in {"loaded", "built"}) =>
        \A i \in 1..Len(corpus_out.value) : RequiredFields \subseteq corpus_out.value[i].fields

\* ------------------------------------------------------------ settings and handles

\* config.py:10-37 with no environment variable set.  top_k 0 stands for None
\* throughout (`top_k or default` treats both alike).
DefaultSettings ==
    [ default_top_k |-> 5,
      max_top_k |-> 10,
      retrieval_branch_top_k |-> 0,
      retrieval_dense_enabled |-> FALSE,
      retrieval_dense_top_k |-> 8 ]

\* a variable that is not in the environment
Unset == "<unset>"

\* values of RETRIEVAL_DENSE_ENABLED
DenseEnabledValues ==
    {Unset, "1", "true", "yes", "on", " TRUE ", "Yes", "0", "false", "no", "off", "",
     "enabled"}

\* the environments considered: RETRIEVAL_DENSE_ENABLED unset or set to one of
\* the values above, or MAX_TOP_K=1
Environments ==
    { [RETRIEVAL_DENSE_ENABLED |-> value, MAX_TOP_K |-> Unset] : value \in DenseEnabledValues }
    \cup { [RETRIEVAL_DENSE_ENABLED |-> Unset, MAX_TOP_K |-> "1"] }

\* os.getenv(name, default)
getenv(value, default) == IF value = Unset THEN default ELSE value

\* str.strip() on the values above
StripValue(value) == IF value = " TRUE " THEN "TRUE" ELSE value

\* str.lower() on the values above
LowerValue(value) ==
    CASE value = "TRUE" -> "true"
      [] value = "Yes" -> "yes"
      [] OTHER -> value

\* int() on the values of MAX_TOP_K
IntValue(value) == IF value = "1" THEN 1 ELSE 10

\* mutant: the parse of the other two flags, enabled unless the value is falsy
DenseEnabledUnlessFalsyMutant(value) ==
    LowerValue(StripValue(getenv(value, "false"))) \notin {"0", "false", "no", "off"}
\* config.py:25-28
DenseEnabled(value) ==
    LowerValue(StripValue(getenv(value, "false"))) \in {"1", "true", "yes", "on"}

\* config.py:5-37: Settings() under the environment env
Settings(env) ==
    [DefaultSettings EXCEPT
        !.max_top_k = IntValue(getenv(env.MAX_TOP_K, "10")),
        !.retrieval_dense_enabled = DenseEnabled(env.RETRIEVAL_DENSE_ENABLED)]

\* the settings of the environments considered: the defaults, dense retrieval
\* enabled, and MAX_TOP_K=1
EnvSettings == { Settings(env) : env \in Environments }

\* search.py:13-25: every handle None, no error, no warning
NewService ==
    [ document_store |-> FALSE,
      retriever |-> FALSE,
      pipeline_single |-> FALSE,
      pipeline_dual |-> FALSE,
      dense_retriever |-> FALSE,
      pipeline_dense_single |-> FALSE,
      pipeline_dense_dual |-> FALSE,
      query_embedder |-> FALSE,
      document_embedder |-> FALSE,
      bootstrap_error |-> FALSE,
      pipeline_warning |-> FALSE,
      dense_warning |-> FALSE ]

\* lines 101-106: the dense handles are reset
DenseReset(h) ==
    [h EXCEPT !.dense_retriever = FALSE,
              !.pipeline_dense_single = FALSE,
              !.pipeline_dense_dual = FALSE,
              !.query_embedder = FALSE,
              !.document_embedder = FALSE,
              !.dense_warning = FALSE]

\* lines 108-175: the dense handles after the dense section, for every place
\* the try block can raise
DenseSection(h, s) ==
    IF ~s.retrieval_dense_enabled THEN {h}
    ELSE { \* the imports or the first embedder's constructor raise
           [h EXCEPT !.dense_warning = TRUE],
           \* the second embedder's constructor raises
           [h EXCEPT !.query_embedder = TRUE, !.dense_warning = TRUE],
           \* warm_up or the retriever's constructor raises
           [h EXCEPT !.query_embedder = TRUE, !.document_embedder = TRUE,
                     !.dense_warning = TRUE],
           \* building a dense pipeline raises
           [h EXCEPT !.query_embedder = TRUE, !.document_embedder = TRUE,
                     !.dense_retriever = TRUE, !.dense_warning = TRUE],
           \* lines 167-168
           [h EXCEPT !.query_embedder = TRUE, !.document_embedder = TRUE,
                     !.dense_retriever = TRUE,
                     !.pipeline_dense_single = TRUE, !.pipeline_dense_dual = TRUE] }

\* mutant: the failure of the pipeline construction leaves no warning
PipelineFailedNoWarningMutant(stored) ==
    [stored EXCEPT !.pipeline_single = FALSE, !.pipeline_dual = FALSE]
\* lines 53-59 and 90-97: both except clauses null the pipeline handles and
\* record the warning
PipelineFailed(stored) ==
    [stored EXCEPT !.pipeline_single = FALSE,
                   !.pipeline_dual = FALSE,
                   !.pipeline_warning = TRUE]

\* lines 28-177: every state _init_haystack can leave the handles h in
InitHaystack(h, s) ==
    LET stored == [h EXCEPT !.document_store = TRUE, !.retriever = TRUE,
                            !.pipeline_warning = FALSE]
        no_pipeline == PipelineFailed(stored)
        with_pipeline == [stored EXCEPT !.pipeline_single = TRUE,
                                        !.pipeline_dual = TRUE]
    IN  \* lines 36-41: the integrations cannot be imported
        { [h EXCEPT !.bootstrap_error = TRUE] }
        \* lines 53-63: the pipeline components cannot be imported
        \cup { [no_pipeline EXCEPT !.bootstrap_error = FALSE] }
        \* lines 65-99 then 101-177
        \cup { [d EXCEPT !.bootstrap_error = FALSE] :
                  d \in DenseSection(DenseReset(no_pipeline), s)
                          \cup DenseSection(DenseReset(with_pipeline), s) }

\* ------------------------------------------------------------ search: the branches

\* Optional values: language "" is None; a hit's language LangMissing is a meta
\* without the key.
NoLanguage == ""
LangMissing == "<missing>"
NoQuery == "<none>"

ServiceChunkIds == {"d1::chunk::0", "d2::chunk::0"}
ServiceScores == {4, 7}
ServiceLanguages == {"en", LangMissing}
\* what the lexical retriever and the lexical pipelines can return
ServiceHits == [chunk_id : ServiceChunkIds, score : ServiceScores, language : ServiceLanguages]
\* what the dense pipelines can return
DenseHits == [chunk_id : ServiceChunkIds, score : {1}, language : {"en"}]

\* models.py:25-29: the validated request fields
RequestLanguages == {NoLanguage, "en", "es"}
RequestTopKs == {0, 1, 2}
RequestQueryEns == {NoQuery, " ", "q", "t"}

\* str.strip() on the query strings of the model
Strip(str) == IF str = " " THEN "" ELSE str

\* lines 456-458
SearchQueries(query_original, query_en) ==
    IF query_en # NoQuery /\ query_en # "" /\ Strip(query_en) # ""
       /\ Strip(query_en) # Strip(query_original)
    THEN <<Strip(query_original), Strip(query_en)>>
    ELSE <<Strip(query_original)>>

\* line 455: k = min(top_k or settings.default_top_k, settings.max_top_k)
SearchK(top_k, s) == Min(IF top_k = 0 THEN s.default_top_k ELSE top_k, s.max_top_k)

\* line 461
DenseTopK(kk, s) == Min(Max(kk, s.retrieval_dense_top_k), s.max_top_k)

\* mutant: the widened value is not capped at max_top_k
ResolveBranchTopKUncappedMutant(final_top_k, s) ==
    IF s.retrieval_branch_top_k <= 0 THEN final_top_k
    ELSE Max(final_top_k, s.retrieval_branch_top_k)
\* lines 288-291
resolve_branch_top_k(final_top_k, s) ==
    IF s.retrieval_branch_top_k <= 0 THEN final_top_k
    ELSE Min(Max(final_top_k, s.retrieval_branch_top_k), s.max_top_k)

\* A call of an external component either raises or returns documents.
Raised == [raised |-> TRUE, docs |-> <<>>]
Returned(docs) == [raised |-> FALSE, docs |-> docs]
NotCalled == [raised |-> FALSE, docs |-> <<>>]
\* an outcome with the path that led to it
Via(out, how) == [raised |-> out.raised, docs |-> out.docs, how |-> how]

\* lines 312-358.  pipe is the outcome of the pipeline run (if one is made),
\* legacy the outcome of _run_legacy_bm25 (if it is called).
PipelineUsed(h, qs) == h.pipeline_single /\ (Len(qs) = 1 \/ h.pipeline_dual)

\* mutant: no except clause, the pipeline's exception leaves the function
PipelineRaisedPropagatesMutant(legacy) == Via(Raised, "pipeline")
\* lines 355-358: the except clause returns what _run_legacy_bm25 gives
PipelineRaised(legacy) == Via(legacy, "fallback")

run_pipeline_bm25(h, qs, pipe, legacy) ==
    IF ~h.pipeline_single THEN Via(legacy, "legacy")
    ELSE IF Len(qs) # 1 /\ ~h.pipeline_dual THEN Via(legacy, "legacy")
    ELSE IF pipe.raised THEN PipelineRaised(legacy)
    ELSE Via(Returned(pipe.docs), "pipeline")

\* mutant: no except clause, the pipeline's exception leaves the function
DenseRaisedPropagatesMutant == Raised
\* lines 408-411: the except clause returns []
DenseRaised == Returned(<<>>)

\* lines 360-411.  pipe is the outcome of the dense pipeline run (if one is made)
run_pipeline_dense(h, s, qs, pipe) ==
    IF ~s.retrieval_dense_enabled THEN Via(Returned(<<>>), "disabled")
    ELSE IF ~h.pipeline_dense_single THEN Via(Returned(<<>>), "no_pipeline")
    ELSE IF Len(qs) # 1 /\ ~h.pipeline_dense_dual THEN Via(Returned(<<>>), "no_pipeline")
    ELSE IF pipe.raised THEN Via(DenseRaised, "raised")
    ELSE Via(Returned(pipe.docs), "returned")

DenseUsed(h, s, qs) ==
    /\ s.retrieval_dense_enabled
    /\ h.pipeline_dense_single
    /\ (Len(qs) = 1 \/ h.pipeline_dense_dual)

\* ------------------------------------------------------------ the lexical branch against a store

\* The store ranks its chunks for a query: each chunk once, best score first.
\* The retriever run with top_k returns the first top_k of the ranking.
StoreQueries == {"q", "t"}
StoreChunkIds == {"d1::chunk::0", "d2::chunk::0"}
StoreHits == [chunk_id : StoreChunkIds, score : {4, 7}]
StoreRankings ==
    { r \in SeqsUpTo(StoreHits, MaxStoreHits) :
        /\ \A i, j \in 1..Len(r) : (i # j) => r[i].chunk_id # r[j].chunk_id
        /\ \A i \in 1..(Len(r) - 1) : r[i].score >= r[i + 1].score }
Stores == [StoreQueries -> StoreRankings]

\* retriever.run(query=query, top_k=top_k)["documents"]
RetrieverRun(store, query, top_k) == Slice(store[query], 0, Max(top_k, 0))

\* one retriever run, as recorded
RetrieverCall(by, query, top_k) == [by |-> by, query |-> query, top_k |-> top_k]

\* lines 301-303: the retriever's answers to the queries, all at top_k
LegacyAnswers(store, qs, top_k) == [q \in 1..Len(qs) |-> RetrieverRun(store, qs[q], top_k)]
LegacyCalls(qs, top_k) == [q \in 1..Len(qs) |-> RetrieverCall("legacy", qs[q], top_k)]

\* lines 314, 333 and 358: _run_legacy_bm25(queries, top_k)
LegacyTopK(top_k, s) == top_k

\* lines 319-321 and 337-342: the retriever components of the pipeline run,
\* the single one at top_k, the dual ones at branch_top_k
PipelineCalls(qs, top_k, s) ==
    IF Len(qs) = 1
    THEN <<RetrieverCall("pipeline", qs[1], top_k)>>
    ELSE <<RetrieverCall("pipeline", qs[1], resolve_branch_top_k(top_k, s)),
           RetrieverCall("pipeline", qs[2], resolve_branch_top_k(top_k, s))>>

\* lines 72-89: the dual pipeline joins the documents of its two retrievers
\* with haystack's DocumentJoiner.  The joiner is taken to keep each chunk
\* once with its best score, best first, as the legacy merge does: the
\* library's join modes differ from this in scores and order only.
Join(lists) == run_legacy_bm25(lists)

\* lines 316-353: what the pipeline run returns
PipelineDocs(store, qs, top_k, s) ==
    IF Len(qs) = 1
    THEN RetrieverRun(store, qs[1], top_k)
    ELSE Join(<<RetrieverRun(store, qs[1], resolve_branch_top_k(top_k, s)),
                RetrieverRun(store, qs[2], resolve_branch_top_k(top_k, s))>>)

BranchSettings ==
    { [DefaultSettings EXCEPT !.max_top_k = max, !.retrieval_branch_top_k = floor] :
        max \in {2, 3}, floor \in {-1, 0, 1, 3, 4} }

BranchHandles ==
    { h \in InitHaystack(NewService, DefaultSettings) : h.retriever }

BranchIdle ==
    /\ store_hits = [query \in StoreQueries |-> <<>>]
    /\ retriever_calls = <<>>
    /\ branch_top_k = 0
    /\ branch_pc = "returned"

\* search.py:455-460: search has computed k and queries
BranchInit ==
    /\ store_hits \in Stores
    /\ retriever_calls = <<>>
    /\ branch_top_k = 0
    /\ branch_pc = "call"
    /\ settings \in BranchSettings
    /\ svc \in BranchHandles
    /\ pc = "bm25"
    /\ req = [language |-> NoLanguage, top_k |-> 0]
    /\ k \in 1..settings.max_top_k
    /\ queries \in {<<"q">>, <<"q", "t">>}
    /\ bm25_docs = <<>>
    /\ bm25_how = "none"
    /\ dense_docs = <<>>
    /\ dense_how = "none"
    /\ response = [status |-> "none", results |-> <<>>, used_queries |-> <<>>]

\* lines 312-358 against the store: the pipeline run, which can raise before
\* or after any of its retriever runs, or the legacy runs
BranchRun ==
    /\ branch_pc = "call"
    /\ \E raised \in BOOLEAN :
       \E made \in 0..Len(PipelineCalls(queries, k, settings)) :
          LET used == PipelineUsed(svc, queries)
              legacy_top_k == LegacyTopK(k, settings)
              pipe == IF raised THEN Raised
                      ELSE Returned(PipelineDocs(store_hits, queries, k, settings))
              legacy == Returned(run_legacy_bm25(
                                    LegacyAnswers(store_hits, queries, legacy_top_k)))
              out == run_pipeline_bm25(svc, queries, pipe, legacy)
              by_pipeline == IF ~used THEN <<>>
                             ELSE SubSeq(PipelineCalls(queries, k, settings), 1, made)
              by_legacy == IF out.how = "pipeline" THEN <<>>
                           ELSE LegacyCalls(queries, legacy_top_k)
          IN /\ (~used) => (~raised /\ made = 0)
             /\ (used /\ ~raised) => made = Len(PipelineCalls(queries, k, settings))
             /\ bm25_docs' = out.docs
             /\ bm25_how' = out.how
             /\ retriever_calls' = by_pipeline \o by_legacy
             /\ branch_top_k' = IF used /\ Len(queries) = 2
                                THEN resolve_branch_top_k(k, settings) ELSE 0
    /\ branch_pc' = "returned"
    /\ UNCHANGED <<store_hits, settings, svc, pc, req, k, queries, dense_docs, dense_how,
                   response>>

\* ------------------------------------------------------------ search: the finalizer

\* line 476: the language filter drops the hit
FilterDrops(language, doc) ==
    /\ language # NoLanguage
    /\ doc.language \notin {"", LangMissing}
    /\ doc.language # language

\* line 491: str(meta.get("language", "en"))
ResultLanguage(doc) == IF doc.language = LangMissing THEN "en" ELSE doc.language

\* lines 483-493 (the fields the model keeps)
SearchResult(doc) ==
    [chunk_id |-> DocChunkId(doc), score |-> FloatScore(doc), language |-> ResultLanguage(doc)]

\* mutant: the first occurrence of a chunk id is kept whatever its score
FinalSkipsAnyRepeatMutant(existing, score) == TRUE
\* line 481: existing["score"] >= score
FinalSkips(existing, score) == existing.score >= score

\* lines 474-493: merged is an OrderedDict keyed by chunk id, kept as its values
RECURSIVE FinalWalk(_, _, _, _)
FinalWalk(docs, i, language, merged) ==
    IF i > Len(docs) THEN merged
    ELSE LET doc == docs[i]
             at == {j \in 1..Len(merged) : merged[j].chunk_id = DocChunkId(doc)}
             merged1 ==
                 IF FilterDrops(language, doc) THEN merged
                 ELSE IF at = {} THEN Append(merged, SearchResult(doc))
                 ELSE LET j == CHOOSE x \in at : TRUE
                      IN IF FinalSkips(merged[j], FloatScore(doc))
                         THEN merged
                         ELSE [merged EXCEPT ![j] = SearchResult(doc)]
         IN FinalWalk(docs, i + 1, language, merged1)

\* mutant: the results are not sorted
FinalSortMissingMutant(items) == items
\* line 495
FinalSort(items) == SortedDesc(items)

\* mutant: the results are not cut to k
FinalCutMissingMutant(items, kk) == items
\* line 497: sorted_results[:k]
FinalCut(items, kk) ==
    IF kk >= 0 THEN SubSeq(items, 1, Min(kk, Len(items)))
    ELSE SubSeq(items, 1, Max(Len(items) + kk, 0))

\* mutant: the lists are fused whether or not the dense list has hits
SearchCandidatesAlwaysFusedMutant(bm25, dense) ==
    rrf_merge_documents(<< <<"bm25", bm25>>, <<"dense", dense>> >>)
\* lines 463-471
SearchCandidates(bm25, dense) ==
    IF dense # <<>>
    THEN rrf_merge_documents(<< <<"bm25", bm25>>, <<"dense", dense>> >>)
    ELSE bm25

\* lines 472-497
search_results(docs, language, kk) ==
    FinalCut(FinalSort(FinalWalk(docs, 1, language, <<>>)), kk)

\* ------------------------------------------------------------ search: the request

NoRequest == [language |-> NoLanguage, top_k |-> 0]
NoResponse == [status |-> "none", results |-> <<>>, used_queries |-> <<>>]

RequestIdle ==
    /\ pc = "idle"
    /\ req = NoRequest
    /\ k = 0
    /\ queries = <<>>
    /\ bm25_docs = <<>>
    /\ bm25_how = "none"
    /\ dense_docs = <<>>
    /\ dense_how = "none"
    /\ response = NoResponse

\* the service is not part of the run
ServiceIdle ==
    /\ settings = DefaultSettings
    /\ svc = NewService
    /\ RequestIdle

\* search.py:12-26: the service as constructed at import of main.py (line 13)
ServiceInit ==
    /\ settings \in EnvSettings
    /\ svc \in InitHaystack(NewService, settings)
    /\ RequestIdle

\* ---- from the environment to the dense branch

NoEnvironment == [RETRIEVAL_DENSE_ENABLED |-> Unset, MAX_TOP_K |-> Unset]

\* the configuration is not part of the run
ConfigIdle ==
    /\ environ = NoEnvironment
    /\ config_pc = "not_run"

\* the process starts under one of the environments
ConfigInit ==
    /\ environ \in Environments
    /\ config_pc = "env"
    /\ ServiceIdle

\* config.py:40: settings = Settings()
ConfigLoad ==
    /\ config_pc = "env"
    /\ settings' = Settings(environ)
    /\ config_pc' = "loaded"
    /\ UNCHANGED <<environ, svc, pc, req, k, queries, bm25_docs, bm25_how, dense_docs,
                   dense_how, response>>

\* main.py:13 and search.py:12-26: service = RetrievalService()
ConfigConstruct ==
    /\ config_pc = "loaded"
    /\ svc' \in InitHaystack(NewService, settings)
    /\ config_pc' = "constructed"
    /\ UNCHANGED <<environ, settings, pc, req, k, queries, bm25_docs, bm25_how, dense_docs,
                   dense_how, response>>

\* the query lists and what a dense pipeline run can do
ConfigQueries == {<<"q">>, <<"q", "t">>}
ConfigDenseOutcomes(h, s, qs) ==
    IF ~DenseUsed(h, s, qs) THEN {NotCalled}
    ELSE {Raised} \cup { Returned(docs) : docs \in SeqsUpTo(DenseHits, MaxDenseHits) }

\* search.py:462: the dense branch of a search on the constructed service
ConfigDense ==
    /\ config_pc = "constructed"
    /\ svc.retriever
    /\ \E qs \in ConfigQueries :
          \E pipe \in ConfigDenseOutcomes(svc, settings, qs) :
             LET out == run_pipeline_dense(svc, settings, qs, pipe)
             IN /\ queries' = qs
                /\ dense_how' = out.how
                /\ dense_docs' = out.docs
    /\ config_pc' = "searched"
    /\ UNCHANGED <<environ, settings, svc, pc, req, k, bm25_docs, bm25_how, response>>

\* main.py:53-56: a RuntimeError (or a subclass) leaving search is answered
\* with 503, any other exception with 500
ErrorStatus(runtime_error) == IF runtime_error THEN "503" ELSE "500"

\* main.py:44-52 and search.py:445-458: search is called; without a retriever
\* it raises RuntimeError, which the endpoint answers with 503
SearchStart(query_original, query_en, language, top_k) ==
    /\ req' = [language |-> language, top_k |-> top_k]
    /\ IF ~svc.retriever
       THEN /\ pc' = "done"
            /\ response' = [status |-> ErrorStatus(TRUE), results |-> <<>>,
                             used_queries |-> <<>>]
            /\ UNCHANGED <<k, queries>>
       ELSE /\ pc' = "bm25"
            /\ k' = SearchK(top_k, settings)
            /\ queries' = SearchQueries(query_original, query_en)
            /\ UNCHANGED response

\* a validated request arrives
SearchCall ==
    /\ pc = "idle"
    /\ \E language \in RequestLanguages, top_k \in RequestTopKs, query_en \in RequestQueryEns :
          SearchStart("q", query_en, language, top_k)
    /\ UNCHANGED <<settings, svc, bm25_docs, bm25_how, dense_docs, dense_how>>

\* ---- the boundary: what the endpoint receives

\* An optional integer as a sequence: <<>> is None, <<n>> is n.
RawTopKs == {<<>>, <<-1>>, <<0>>, <<1>>, <<2>>, <<20>>, <<21>>}
RawLanguages == {NoLanguage, "en", "es", "fr"}
RawQueryOriginals == {"", " ", "q"}
RawSearchRequests ==
    [query_original : RawQueryOriginals, query_en : RequestQueryEns,
     language : RawLanguages, top_k : RawTopKs]
NoRawRequest == [query_original |-> "", query_en |-> NoQuery, language |-> NoLanguage, top_k |-> <<>>]

\* len() of the query strings of the model
QueryLen(str) == IF str = "" THEN 0 ELSE 1

\* models.py:26: Field(min_length=1)
ValidQueryOriginal(str) == QueryLen(str) >= 1
\* models.py:28: Field(default=None, pattern="^(en|es)$")
ValidLanguage(language) == language = NoLanguage \/ language \in {"en", "es"}
\* models.py:29: Field(default=None, ge=1, le=20)
ValidTopKAcceptsAnyMutant(top_k) == TRUE
ValidTopK(top_k) == top_k = <<>> \/ (top_k[1] >= 1 /\ top_k[1] <= 20)

\* models.py:25-29: the body validates as a SearchRequest
Validates(raw) ==
    /\ ValidQueryOriginal(raw.query_original)
    /\ ValidLanguage(raw.language)
    /\ ValidTopK(raw.top_k)

\* request.top_k as search receives it (0: None)
TopKArg(top_k) == IF top_k = <<>> THEN 0 ELSE top_k[1]

BoundaryIdle == search_raw = NoRawRequest

\* main.py:43-51: a body arrives at /search; one that does not validate is
\* answered 422 before the handler runs, any other is handed to search
SearchReceive ==
    /\ pc = "idle"
    /\ \E raw \in RawSearchRequests :
          /\ search_raw' = raw
          /\ IF Validates(raw)
             THEN SearchStart(raw.query_original, raw.query_en, raw.language,
                              TopKArg(raw.top_k))
             ELSE /\ pc' = "done"
                  /\ response' = [status |-> "422", results |-> <<>>, used_queries |-> <<>>]
                  /\ UNCHANGED <<req, k, queries>>
    /\ UNCHANGED <<settings, svc, bm25_docs, bm25_how, dense_docs, dense_how>>

\* a retriever called with top_k returns at most top_k hits
ListsUpTo(hits, n, top_k) == SeqsUpTo(hits, Min(n, Max(top_k, 0)))

\* what the lexical pipeline run can do: raise, or return documents (the single
\* pipeline at most k, the dual pipeline's joiner at most both branches' hits)
PipelineOutcomes ==
    IF ~PipelineUsed(svc, queries) THEN {NotCalled}
    ELSE {Raised} \cup
         { Returned(docs) : docs \in
             ListsUpTo(ServiceHits, MaxHits,
                       IF Len(queries) = 1 THEN k
                       ELSE 2 * resolve_branch_top_k(k, settings)) }

\* what _run_legacy_bm25 can do when it is called: a retriever call raises
\* (nothing catches it), or every query is answered and the answers merged
LegacyOutcomes(pipe) ==
    IF PipelineUsed(svc, queries) /\ ~pipe.raised THEN {NotCalled}
    ELSE {Raised} \cup
         { Returned(run_legacy_bm25(answers)) : answers \in
             [1..Len(queries) -> ListsUpTo(ServiceHits, MaxAnswerHits, k)] }

\* line 460: bm25_docs = self._run_pipeline_bm25(queries=queries, top_k=k); an
\* exception of either kind leaves search and the endpoint answers it
\* (main.py:53-56)
RunBM25 ==
    /\ pc = "bm25"
    /\ \E pipe \in PipelineOutcomes :
       \E legacy \in LegacyOutcomes(pipe) :
          LET out == run_pipeline_bm25(svc, queries, pipe, legacy)
          IN /\ bm25_how' = out.how
             /\ IF out.raised
                THEN /\ pc' = "done"
                     /\ \E runtime_error \in BOOLEAN :
                           response' = [status |-> ErrorStatus(runtime_error),
                                        results |-> <<>>, used_queries |-> <<>>]
                     /\ UNCHANGED bm25_docs
                ELSE /\ pc' = "dense"
                     /\ bm25_docs' = out.docs
                     /\ UNCHANGED response
    /\ UNCHANGED <<settings, svc, req, k, queries, dense_docs, dense_how>>

DenseOutcomes ==
    IF ~DenseUsed(svc, settings, queries) THEN {NotCalled}
    ELSE {Raised} \cup
         { Returned(docs) : docs \in
             ListsUpTo(DenseHits, MaxDenseHits, 2 * DenseTopK(k, settings)) }

\* lines 461-500 and main.py:53: the dense branch, fusion, the finalizer
RunDense ==
    /\ pc = "dense"
    /\ \E pipe \in DenseOutcomes :
          LET out == run_pipeline_dense(svc, settings, queries, pipe)
          IN /\ dense_how' = out.how
             /\ IF out.raised
                THEN /\ \E runtime_error \in BOOLEAN :
                           response' = [status |-> ErrorStatus(runtime_error),
                                        results |-> <<>>, used_queries |-> <<>>]
                     /\ UNCHANGED dense_docs
                ELSE /\ dense_docs' = out.docs
                     /\ response' =
                           [status |-> "200",
                            results |-> search_results(SearchCandidates(bm25_docs, out.docs),
                                                       req.language, k),
                            used_queries |-> queries]
    /\ pc' = "done"
    /\ UNCHANGED <<settings, svc, req, k, queries, bm25_docs, bm25_how>>

\* main.py:53-56: the endpoint returns the response or raises the HTTPException;
\* the request's locals are gone
Respond ==
    /\ pc = "done"
    /\ pc' = "idle"
    /\ req' = NoRequest
    /\ k' = 0
    /\ queries' = <<>>
    /\ bm25_docs' = <<>>
    /\ bm25_how' = "none"
    /\ dense_docs' = <<>>
    /\ dense_how' = "none"
    /\ response' = NoResponse
    /\ UNCHANGED <<settings, svc>>

\* lines 302, 318, 337, 368 and 388: a run of the retriever or of a pipeline
\* is a blocking call made without a timeout; when the store or the embedder
\* never answers, the call never returns and search stays in it
CallBlocks ==
    /\ pc \in {"bm25", "dense"}
    /\ (pc = "dense") => DenseUsed(svc, settings, queries)
    /\ pc' = "blocked"
    /\ UNCHANGED <<settings, svc, req, k, queries, bm25_docs, bm25_how, dense_docs,
                   dense_how, response>>

\* ------------------------------------------------------------ two searches at once

\* main.py:43-44: /search is a plain `def` endpoint, which the framework runs
\* in a worker thread per request; two requests run search() at once on the
\* one RetrievalService.
Threads == {1, 2}

\* the stored chunks as the retrievers return them
ThreadHits == [chunk_id : ServiceChunkIds, score : ServiceScores, language : {"en"}]
ThreadRankings ==
    { r \in SeqsUpTo(ThreadHits, MaxStoreHits) :
        /\ \A i, j \in 1..Len(r) : (i # j) => r[i].chunk_id # r[j].chunk_id
        /\ \A i \in 1..(Len(r) - 1) : r[i].score >= r[i + 1].score }
DenseRankings ==
    { r \in SeqsUpTo(DenseHits, MaxDenseHits) :
        \A i, j \in 1..Len(r) : (i # j) => r[i].chunk_id # r[j].chunk_id }

\* the stores of the run: every lexical ranking for "q" with one of two for
\* "t", and a dense ranking
LexicalStores ==
    { [q \in StoreQueries |-> IF q = "q" THEN r ELSE u] :
        r \in ThreadRankings,
        u \in { <<[chunk_id |-> "d1::chunk::0", score |-> 7, language |-> "en"]>>,
                <<[chunk_id |-> "d2::chunk::0", score |-> 7, language |-> "en"],
                  [chunk_id |-> "d1::chunk::0", score |-> 4, language |-> "en"]>> } }
DenseStores == { [q \in StoreQueries |-> r] : r \in DenseRankings }

ThreadRequests ==
    [query_original : StoreQueries, query_en : {NoQuery}, language : {NoLanguage},
     top_k : {1, 2}]

NoThreadRequest ==
    [query_original |-> "", query_en |-> NoQuery, language |-> NoLanguage, top_k |-> 0]
\* raced is history: another search was inside search() when this one built
\* its response
NoThread ==
    [pc |-> "idle", req |-> NoThreadRequest, k |-> 0, queries |-> <<>>, bm25_docs |-> <<>>,
     dense_docs |-> <<>>, docs |-> <<>>, response |-> NoResponse, raced |-> FALSE]

EmptyHeap == [ref \in {} |-> 0]

\* mutant: a retriever run hands out the same Document objects to every request
DocRefSharedMutant(t, branch, i) == <<0, branch, i>>
\* lines 322, 343, 373, 398: the documents of a run are objects made for that
\* run: the i-th document of the `branch` run of thread t
DocRef(t, branch, i) == <<t, branch, i>>

DocRefs(t, branch, docs) == [i \in 1..Len(docs) |-> DocRef(t, branch, i)]

\* the heap after the run has created its documents
HeapAlloc(h, refs, docs) ==
    [ref \in (DOMAIN h) \cup {refs[i] : i \in 1..Len(refs)} |->
        IF \E i \in 1..Len(refs) : refs[i] = ref
        THEN docs[CHOOSE i \in 1..Len(refs) : refs[i] = ref]
        ELSE h[ref]]

\* the documents behind a list of references, as they are now
HeapDocs(h, refs) == [i \in 1..Len(refs) |-> h[refs[i]]]

\* the same, each with its reference
HeapRefDocs(h, refs) ==
    [i \in 1..Len(refs) |->
        [chunk_id |-> h[refs[i]].chunk_id, score |-> h[refs[i]].score,
         language |-> h[refs[i]].language, ref |-> refs[i]]]

\* lines 435-439: doc.score = fused_score assigns to the Document objects
HeapSetScores(h, fused) ==
    [ref \in DOMAIN h |->
        IF \E i \in 1..Len(fused) : fused[i].ref = ref
        THEN [h[ref] EXCEPT !.score =
                 fused[CHOOSE i \in 1..Len(fused) : fused[i].ref = ref].score]
        ELSE h[ref]]

\* lines 365-404: what the dense pipeline run returns
DensePipelineDocs(store, qs, top_k) ==
    IF Len(qs) = 1
    THEN RetrieverRun(store, qs[1], top_k)
    ELSE Join(<<RetrieverRun(store, qs[1], top_k), RetrieverRun(store, qs[2], top_k)>>)

\* lines 312-358 against the store: no run raises
ThreadBM25Docs(store, h, s, qs, kk) ==
    run_pipeline_bm25(h, qs, Returned(PipelineDocs(store, qs, kk, s)),
                      Returned(run_legacy_bm25(LegacyAnswers(store, qs, LegacyTopK(kk, s))))).docs

\* lines 360-411 against the store: no run raises
ThreadDenseDocs(store, h, s, qs, kk) ==
    run_pipeline_dense(h, s, qs, Returned(DensePipelineDocs(store, qs, DenseTopK(kk, s)))).docs

\* search() run on its own: the response to a request, given the stores
SoloResponse(lexical, dense, h, s, request) ==
    LET kk == SearchK(request.top_k, s)
        qs == SearchQueries(request.query_original, request.query_en)
    IN [status |-> "200",
        results |-> search_results(
                        SearchCandidates(ThreadBM25Docs(lexical, h, s, qs, kk),
                                         ThreadDenseDocs(dense, h, s, qs, kk)),
                        request.language, kk),
        used_queries |-> qs]

ThreadIdle ==
    /\ lexical_store = [q \in StoreQueries |-> <<>>]
    /\ dense_store = [q \in StoreQueries |-> <<>>]
    /\ threads = [t \in Threads |-> NoThread]
    /\ heap = EmptyHeap

\* a constructed service with a retriever, a store, and no request yet
ThreadInit ==
    /\ ServiceInit
    /\ svc.retriever
    /\ svc.pipeline_single
    /\ svc.pipeline_dense_single
    /\ settings.retrieval_dense_enabled
    /\ lexical_store \in LexicalStores
    /\ dense_store \in DenseStores
    /\ threads = [t \in Threads |-> NoThread]
    /\ heap = EmptyHeap

\* lines 452-458: a request enters search() in thread t
ThreadCall(t) ==
    /\ threads[t].pc = "idle"
    /\ \E request \in ThreadRequests :
          threads' = [threads EXCEPT ![t] =
              [@ EXCEPT !.pc = "bm25",
                        !.req = request,
                        !.k = SearchK(request.top_k, settings),
                        !.queries = SearchQueries(request.query_original, request.query_en)]]
    /\ UNCHANGED <<lexical_store, dense_store, heap>>

\* line 460: bm25_docs = self._run_pipeline_bm25(queries=queries, top_k=k)
ThreadBM25(t) ==
    /\ threads[t].pc = "bm25"
    /\ \E docs \in {ThreadBM25Docs(lexical_store, svc, settings, threads[t].queries,
                                    threads[t].k)} :
          \E refs \in {DocRefs(t, "bm25", docs)} :
             /\ heap' = HeapAlloc(heap, refs, docs)
             /\ threads' = [threads EXCEPT ![t] = [@ EXCEPT !.pc = "dense", !.bm25_docs = refs]]
    /\ UNCHANGED <<lexical_store, dense_store>>

\* lines 461-462: dense_docs = self._run_pipeline_dense(queries=queries, top_k=dense_top_k)
ThreadDense(t) ==
    /\ threads[t].pc = "dense"
    /\ \E docs \in {ThreadDenseDocs(dense_store, svc, settings, threads[t].queries,
                                     threads[t].k)} :
          \E refs \in {DocRefs(t, "dense", docs)} :
             /\ heap' = HeapAlloc(heap, refs, docs)
             /\ threads' = [threads EXCEPT ![t] = [@ EXCEPT !.pc = "merge", !.dense_docs = refs]]
    /\ UNCHANGED <<lexical_store, dense_store>>

\* lines 463-471: the fusion, which writes the fused score into the documents
\* it returns, or the lexical list as it is
ThreadMerge(t) ==
    /\ threads[t].pc = "merge"
    /\ \E fused \in {SearchCandidates(HeapRefDocs(heap, threads[t].bm25_docs),
                                       HeapRefDocs(heap, threads[t].dense_docs))} :
          /\ heap' = HeapSetScores(heap, fused)
          /\ threads' = [threads EXCEPT ![t] =
                 [@ EXCEPT !.pc = "final",
                           !.docs = [i \in 1..Len(fused) |-> fused[i].ref]]]
    /\ UNCHANGED <<lexical_store, dense_store>>

\* lines 472-500: the finalizer reads the documents and builds the response
ThreadFinalize(t) ==
    /\ threads[t].pc = "final"
    /\ \E results \in {search_results(HeapDocs(heap, threads[t].docs),
                                       threads[t].req.language, threads[t].k)} :
          threads' = [threads EXCEPT ![t] =
             [@ EXCEPT !.pc = "done",
                       !.raced = \E u \in Threads \ {t} : threads[u].pc \notin {"idle", "done"},
                       !.response = [status |-> "200", results |-> results,
                                     used_queries |-> threads[t].queries]]]
    /\ UNCHANGED <<lexical_store, dense_store, heap>>

\* the next statement of thread t
ThreadStep(t) ==
    \/ ThreadCall(t)
    \/ ThreadBM25(t)
    \/ ThreadDense(t)
    \/ ThreadMerge(t)
    \/ ThreadFinalize(t)

\* the Document objects thread t holds in its locals
ThreadRefs(t) ==
    {threads[t].bm25_docs[i] : i \in 1..Len(threads[t].bm25_docs)}
        \cup {threads[t].dense_docs[i] : i \in 1..Len(threads[t].dense_docs)}

\* ------------------------------------------------------------ indexing and health

\* A stored document keeps the chunk record's fields; two documents are the
\* same document (same haystack id) when all their fields agree.
\* _maybe_embed_documents (search.py:265-286) adds a vector to a document and
\* changes none of these fields.
StoredDoc(chunk) ==
    [chunk_id |-> chunk.chunk_id, doc_id |-> chunk.doc_id,
     content |-> chunk.content, language |-> chunk.language]
StoredDocs(chunk_records) == {StoredDoc(chunk_records[i]) : i \in 1..Len(chunk_records)}

\* a chunk of a document indexed by an earlier run that no corpus of the model holds
StaleDoc == [chunk_id |-> "d0::chunk::0", doc_id |-> "d0", content |-> <<"b">>, language |-> "en"]
InitialIndexes == {{}, {StaleDoc}}

\* the corpus files of the index requests
IndexLines ==
    { [kind |-> "bad", rec |-> NoRecord],
      [kind |-> "deep", rec |-> NoRecord],
      [kind |-> "object",
       rec |-> [fields |-> {"id", "content", "language"}, id |-> "d2",
                content |-> <<"a">>, language |-> "es"]],
      [kind |-> "object",
       rec |-> [fields |-> {"id", "content"}, id |-> "d1",
                content |-> <<"a", "b", "a">>, language |-> NoRecLanguage]],
      \* a later version of d1, with less content
      [kind |-> "object",
       rec |-> [fields |-> {"id", "content"}, id |-> "d1",
                content |-> <<"a">>, language |-> NoRecLanguage]] }
IndexFiles ==
    { [exists |-> TRUE, lines |-> ls] : ls \in SeqsUpTo(IndexLines, MaxIndexLines) }
      \cup { [exists |-> FALSE, lines |-> <<>>] }
IndexArgs == [chunk_size : {2}, chunk_overlap : {1}]

\* the exceptions that are RuntimeError or a subclass of it
RuntimeErrors == {"RuntimeError", "RecursionError"}

\* main.py:35-40: the except clauses of the /index endpoint
IndexErrorStatus(error) ==
    IF error = "FileNotFoundError" THEN "400"
    ELSE IF error \in RuntimeErrors THEN "503"
    ELSE "500"

\* search.py:263: _init_haystack run again by _reset_index_hard.  The imports
\* of lines 30-35 succeeded when the store was built and are answered from
\* sys.modules, so the except clause of lines 36-41 is not taken.
ReinitHaystack(h, s) == {x \in InitHaystack(h, s) : ~x.bootstrap_error}

\* search.py:249-260: what the two deletes leave of the index: the index is
\* dropped; the drop raises and delete_documents empties the index; both raise
\* and the second exception is passed over
ResetOutcomes == {"dropped", "deleted_all", "kept"}
ResetLeaves(docs, outcome) == IF outcome = "kept" THEN docs ELSE {}

NoIndexRequest ==
    [file |-> [exists |-> FALSE, lines |-> <<>>], recreate_index |-> FALSE,
     chunk_size |-> 2, chunk_overlap |-> 1]
NoIndexResponse == [status |-> "none", indexed_documents |-> 0, indexed_chunks |-> 0]
NoHealthResponse ==
    [status |-> "none", body_status |-> "none", elasticsearch_reachable |-> FALSE,
     count |-> "not_called"]

IndexFailure(error) ==
    [status |-> IndexErrorStatus(error), indexed_documents |-> 0, indexed_chunks |-> 0]

\* mutant: the index is reset whether or not recreate_index is set
AfterLoadAlwaysResetsMutant(recreate_index) == "reset"
\* search.py:220-221: if recreate_index: self._reset_index_hard()
AfterLoad(recreate_index) == IF recreate_index THEN "reset" ELSE "write"

\* mutant: the reset is made before the corpus is loaded, so that a failed
\* load finds it done
AfterLoadFailureResetsMutant(recreate_index) == IF recreate_index THEN "reset" ELSE "done"
\* search.py:214-215: an exception of the loader or the chunker leaves
\* index_corpus before line 220
AfterLoadFailure(recreate_index) == "done"

IndexRequestIdle ==
    /\ index_pc = "idle"
    /\ index_before = {}
    /\ index_req = NoIndexRequest
    /\ index_records = <<>>
    /\ index_chunks = <<>>
    /\ index_response = NoIndexResponse
    /\ health_response = NoHealthResponse

\* the endpoints are not part of the run
IndexIdle ==
    /\ es_index = {}
    /\ IndexRequestIdle

\* the index as earlier runs left it
IndexInit ==
    /\ es_index \in InitialIndexes
    /\ IndexRequestIdle

\* main.py:26-33 and search.py:211-215: a validated request arrives; without a
\* document store index_corpus raises RuntimeError before anything is loaded
IndexCall ==
    /\ index_pc = "idle"
    /\ \E file \in IndexFiles, recreate_index \in BOOLEAN, args \in IndexArgs :
          LET loaded == load_corpus_records(file)
              built == build_chunk_records(loaded.value, args.chunk_size, args.chunk_overlap)
          IN /\ index_req' = [file |-> file, recreate_index |-> recreate_index,
                              chunk_size |-> args.chunk_size,
                              chunk_overlap |-> args.chunk_overlap]
             /\ IF ~svc.document_store
                THEN /\ index_pc' = "done"
                     /\ index_response' = IndexFailure("RuntimeError")
                     /\ UNCHANGED <<index_records, index_chunks>>
                ELSE IF loaded.raised # NoError
                THEN /\ index_pc' = AfterLoadFailure(recreate_index)
                     /\ index_response' = IndexFailure(loaded.raised)
                     /\ UNCHANGED <<index_records, index_chunks>>
                ELSE IF built.raised # NoError
                THEN /\ index_pc' = AfterLoadFailure(recreate_index)
                     /\ index_response' = IndexFailure(built.raised)
                     /\ index_records' = loaded.value
                     /\ UNCHANGED index_chunks
                ELSE /\ index_pc' = AfterLoad(recreate_index)
                     /\ index_records' = loaded.value
                     /\ index_chunks' = built.value
                     /\ UNCHANGED index_response
    /\ index_before' = es_index
    /\ UNCHANGED <<es_index, health_response, service_vars>>

\* search.py:220-221 and 245-263: _reset_index_hard
IndexReset ==
    /\ index_pc = "reset"
    /\ \E outcome \in ResetOutcomes : es_index' = ResetLeaves(es_index, outcome)
    /\ svc' \in ReinitHaystack(svc, settings)
    /\ index_pc' = "write"
    /\ UNCHANGED <<index_req, index_records, index_chunks, index_response, health_response,
                   index_before>>
    /\ UNCHANGED <<settings, pc, req, k, queries, bm25_docs, bm25_how, dense_docs,
                   dense_how, response>>

\* search.py:223-243: the documents are written with DuplicatePolicy.OVERWRITE,
\* or write_documents raises and the endpoint answers the exception
IndexWrite ==
    /\ index_pc = "write"
    /\ \/ /\ es_index' = es_index \cup StoredDocs(index_chunks)
          /\ index_response' = [status |-> "200",
                                indexed_documents |-> Len(index_records),
                                indexed_chunks |-> Len(index_chunks)]
       \/ /\ \E error \in {"DocumentStoreError", "RuntimeError"} :
                index_response' = IndexFailure(error)
          /\ UNCHANGED es_index
    /\ index_pc' = "done"
    /\ UNCHANGED <<index_req, index_records, index_chunks, health_response, index_before,
                   service_vars>>

\* main.py:34-40: the endpoint returns; the request's locals are gone
IndexRespond ==
    /\ index_pc = "done"
    /\ index_pc' = "idle"
    /\ index_req' = NoIndexRequest
    /\ index_records' = <<>>
    /\ index_chunks' = <<>>
    /\ index_response' = NoIndexResponse
    /\ index_before' = {}
    /\ UNCHANGED <<es_index, health_response, service_vars>>

\* mutant: no except clause, the exception of count_documents leaves ping
PingCountRaisedPropagatesMutant == [raised |-> "ConnectionError", value |-> FALSE]
\* search.py:185-186: the except clause returns False
PingCountRaised == [raised |-> NoError, value |-> FALSE]

\* search.py:179-186; count is how count_documents ends if it is called
ping(h, count) ==
    IF ~h.document_store THEN [raised |-> NoError, value |-> FALSE]
    ELSE IF count = "raised" THEN PingCountRaised
    ELSE [raised |-> NoError, value |-> TRUE]

\* main.py:16-22: the /health endpoint
HealthCall ==
    /\ index_pc = "idle"
    /\ \E count \in (IF svc.document_store THEN {"ok", "raised"} ELSE {"not_called"}) :
          LET out == ping(svc, count)
          IN health_response' =
                IF out.raised # NoError
                THEN [status |-> "500", body_status |-> "none",
                      elasticsearch_reachable |-> FALSE, count |-> count]
                ELSE [status |-> "200", body_status |-> "ok",
                      elasticsearch_reachable |-> out.value, count |-> count]
    /\ index_pc' = "health"
    /\ UNCHANGED <<es_index, index_req, index_records, index_chunks, index_response,
                   index_before, service_vars>>

HealthRespond ==
    /\ index_pc = "health"
    /\ index_pc' = "idle"
    /\ health_response' = NoHealthResponse
    /\ UNCHANGED <<es_index, index_req, index_records, index_chunks, index_response,
                   index_before, service_vars>>

\* ------------------------------------------------------------ statements about indexing and health

\* C13: when index_corpus with recreate_index=true has returned successfully,
\* the index holds only chunks of the corpus just indexed (no chunk of a
\* document left out of the new corpus is there for a later search to return).
C13_RecreateLeavesOnlyNewCorpus ==
    (index_pc = "done" /\ index_response.status = "200" /\ index_req.recreate_index) =>
        es_index = StoredDocs(index_chunks)

\* C14: the health check never raises: ping gives a boolean in every state of
\* the service, false when the store is null or count_documents fails and true
\* otherwise, and the /health endpoint answers with status ok.
C14_HealthNeverRaises ==
    (index_pc = "health") =>
        /\ health_response.status = "200"
        /\ health_response.body_status = "ok"
        /\ health_response.elasticsearch_reachable \in BOOLEAN
        /\ health_response.elasticsearch_reachable <=>
              (svc.document_store /\ health_response.count = "ok")
        /\ ~svc.document_store => health_response.count = "not_called"

\* C14's case: the store is there and its count call raises; the health
\* endpoint has answered ok with the store reported unreachable.
C14_Witness ==
    /\ index_pc = "health"
    /\ svc.document_store
    /\ health_response.count = "raised"
    /\ health_response.status = "200"
    /\ ~health_response.elasticsearch_reachable

\* C15: an index request is answered 503 exactly when the store was never
\* initialised (and then nothing was loaded), 400 when the corpus path is
\* missing, and 500 for any other failure raised during the request.
C15_ErrorCauses ==
    (index_pc = "done") =>
        /\ (index_response.status = "503") <=> ~svc.document_store
        /\ ~svc.document_store => index_records = <<>>
        /\ (svc.document_store /\ ~index_req.file.exists) => index_response.status = "400"
        /\ (svc.document_store /\ index_req.file.exists) =>
              index_response.status \in {"200", "500"}

\* C26: a document's chunks are replaced wholesale when it is reindexed: after
\* a successful index_corpus without recreate_index, the index holds for every
\* document of the corpus exactly the chunk records of its new content, and no
\* chunk record of an earlier version.
C26_ReindexReplacesWholesale ==
    (index_pc = "done" /\ index_response.status = "200" /\ ~index_req.recreate_index) =>
        \A doc \in es_index :
            (\E i \in 1..Len(index_records) : index_records[i].id = doc.doc_id)
                => doc \in StoredDocs(index_chunks)

\* C27: the handles (and the settings they are built from) are assigned only
\* at construction and by index_corpus with recreate_index=true: a step of
\* any request changes them only if it is the reset of such an index request;
\* ping and index_corpus without recreate_index leave each of them as it was,
\* whether they succeed or fail.
C27_HandlesAssignedOnlyOnRecreate ==
    [][(svc' # svc \/ settings' # settings) =>
          (index_pc = "reset" /\ index_req.recreate_index /\ settings' = settings)]_vars

\* an index request without recreate_index failed in write_documents on a
\* service whose pipelines are built
C27_Witness ==
    /\ index_pc = "done"
    /\ ~index_req.recreate_index
    /\ index_chunks # <<>>
    /\ index_response.status = "500"
    /\ svc.pipeline_single

\* the corpus of the index request in progress loads and chunks
CorpusUsable ==
    LET loaded == load_corpus_records(index_req.file)
    IN /\ loaded.raised = NoError
       /\ build_chunk_records(loaded.value, index_req.chunk_size,
                              index_req.chunk_overlap).raised = NoError

C21_SearchesDoNotInterfere ==
    /\ [](\A t \in Threads :
            (threads[t].pc = "done") =>
                threads[t].response =
                    SoloResponse(lexical_store, dense_store, svc, settings, threads[t].req))
    /\ [][\A t, u \in Threads :
            (t # u /\ threads'[t] # threads[t]) =>
                /\ threads'[u] = threads[u]
                /\ \A ref \in ThreadRefs(u) : heap'[ref] = heap[ref]]_vars
    /\ [][lexical_store' = lexical_store /\ dense_store' = dense_store /\ svc' = svc]_vars
    /\ [](\A t \in Threads :
            threads[t].pc \in {"idle", "bm25", "dense", "merge", "final", "done"})

\* both requests asked the same query and went through the fusion, and the
\* first built its response while the second was inside search()
C21_Witness ==
    /\ threads[1].pc = "done"
    /\ threads[2].pc = "done"
    /\ threads[1].raced
    /\ threads[1].queries = threads[2].queries
    /\ threads[1].dense_docs # <<>>
    /\ threads[1].bm25_docs # <<>>
    /\ threads[1].response.results # <<>>
    /\ threads[1].req.top_k # threads[2].req.top_k

\* ------------------------------------------------------------ statements about search

\* the candidate list handed to the finalizer
Candidates == SearchCandidates(bm25_docs, dense_docs)

Answered == pc = "done" /\ response.status = "200"

\* C6: whatever path produced the candidates, a search response holds at most
\* the requested top_k results, and at most max_top_k.
C6_AtMostTopK ==
    (pc = "done") =>
        /\ Len(response.results) <= settings.max_top_k
        /\ (req.top_k # 0) => Len(response.results) <= req.top_k

\* C6's case: the lexical pipeline and the dense pipeline both returned hits,
\* fusion left more distinct chunks than the one result asked for.
C6_Witness ==
    /\ Answered
    /\ req.top_k = 1
    /\ bm25_how = "pipeline"
    /\ dense_how = "returned"
    /\ dense_docs # <<>>
    /\ Cardinality({DocChunkId(Candidates[i]) : i \in 1..Len(Candidates)}) >= 2
    /\ req.language = NoLanguage
    /\ Len(response.results) = 1

\* C7: no chunk id stands twice in the results of one response, even when the
\* candidate list holds a chunk id several times, and the occurrence kept is
\* the highest-scoring one among those the language filter lets through.
C7_UniqueBestOccurrence ==
    Answered =>
        /\ \A i, j \in 1..Len(response.results) :
              response.results[i].chunk_id = response.results[j].chunk_id => i = j
        /\ \A i \in 1..Len(response.results) :
              LET r == response.results[i]
                  same == {n \in 1..Len(Candidates) :
                              /\ DocChunkId(Candidates[n]) = r.chunk_id
                              /\ ~FilterDrops(req.language, Candidates[n])}
              IN /\ \E n \in same : Candidates[n].score = r.score
                 /\ \A n \in same : Candidates[n].score <= r.score

\* C7's case: the candidate list holds one chunk id twice, the lower score
\* first, and the response keeps the higher one.
C7_Witness ==
    /\ Answered
    /\ Len(Candidates) = 2
    /\ Candidates[1].chunk_id = Candidates[2].chunk_id
    /\ Candidates[1].score < Candidates[2].score
    /\ Len(response.results) = 1
    /\ response.results[1].score = Candidates[2].score

\* C8: when the request supplies a language filter, every result of the
\* response has a language equal to that filter, also for hits whose stored
\* language is missing or empty.
C8_LanguageFilter ==
    (Answered /\ req.language # NoLanguage) =>
        \A i \in 1..Len(response.results) : response.results[i].language = req.language

\* C9: the results of every response are ordered by score descending.
C9_SortedByScore ==
    Answered =>
        \A i \in 1..(Len(response.results) - 1) :
            response.results[i].score >= response.results[i + 1].score

\* C9's case: the candidates arrive lower score first, both are returned.
C9_Witness ==
    /\ Answered
    /\ Len(Candidates) = 2
    /\ Candidates[1].score < Candidates[2].score
    /\ Len(response.results) = 2

\* C10: the dense pathway never fails a search: when dense retrieval is
\* disabled, was not initialised, or its pipeline raises during the request,
\* the search is answered with exactly what the lexical branch alone gives;
\* and a search that fails never got as far as the dense branch.
C10_DenseNeverFailsSearch ==
    (pc = "done") =>
        /\ (dense_how \in {"disabled", "no_pipeline", "raised"}) =>
              /\ response.status = "200"
              /\ dense_docs = <<>>
              /\ response.results = search_results(bm25_docs, req.language, k)
              /\ response.used_queries = queries
        /\ (response.status # "200") => dense_how = "none"

\* C10's case: the dense pipeline raised during a request whose lexical branch
\* found hits, and the response carries them.
C10_Witness ==
    /\ Answered
    /\ dense_how = "raised"
    /\ svc.pipeline_dense_single
    /\ bm25_docs # <<>>
    /\ response.results # <<>>

\* C11: when the lexical pipeline raises during a search request, the request
\* is carried on by the legacy retriever path (a request never fails on the
\* pipeline path, and what the fallback hands on is a legacy merge: one hit per
\* chunk id, best score first); no step of a search changes the handles, so
\* every request that finds the pipeline handles set runs the pipeline,
\* whatever happened to the requests before it.
C11_PipelineFailureFallsBack ==
    [][ /\ svc' = svc
        /\ (pc = "bm25" /\ pc' # "bm25") =>
              /\ PipelineUsed(svc, queries) => bm25_how' \in {"pipeline", "fallback"}
              /\ (bm25_how' = "pipeline") => pc' = "dense"
              /\ (bm25_how' = "fallback" /\ pc' = "dense") =>
                    /\ \A i, j \in 1..Len(bm25_docs') :
                          DocChunkId(bm25_docs'[i]) = DocChunkId(bm25_docs'[j]) => i = j
                    /\ \A i \in 1..(Len(bm25_docs') - 1) :
                          bm25_docs'[i].score >= bm25_docs'[i + 1].score ]_vars

\* C11's case: the pipeline raised, the legacy path found hits and the request
\* is answered with them, the pipeline handles still set.
C11_Witness ==
    /\ Answered
    /\ bm25_how = "fallback"
    /\ svc.pipeline_single
    /\ svc.pipeline_dual
    /\ response.results # <<>>

\* C12: when the construction of the lexical pipeline failed at initialisation
\* the service is in legacy mode: both pipeline handles null, no bootstrap
\* error, a pipeline warning recorded (and a service with a retriever but no
\* pipeline always carries the warning); every search in that mode is served
\* by the legacy path, and no step of a search touches the handles, so the
\* construction is not attempted again.
C12_LegacyModeStable ==
    /\ [] /\ svc.pipeline_warning =>
                (~svc.pipeline_single /\ ~svc.pipeline_dual /\ ~svc.bootstrap_error
                    /\ svc.retriever)
          /\ (svc.retriever /\ (~svc.pipeline_single \/ ~svc.pipeline_dual)) =>
                svc.pipeline_warning
          /\ (svc.pipeline_warning /\ bm25_how # "none") => bm25_how = "legacy"
    /\ [][svc.pipeline_warning => svc' = svc]_vars

\* C12's case: the pipeline construction failed at initialisation and a search
\* is answered with hits by the legacy path.
C12_Witness ==
    /\ Answered
    /\ svc.pipeline_warning
    /\ ~svc.pipeline_single
    /\ bm25_how = "legacy"
    /\ response.results # <<>>

\* the scores the hits of a list carry for the chunk id of a result
ScoresIn(docs, result) ==
    {FloatScore(docs[i]) : i \in {j \in 1..Len(docs) : DocChunkId(docs[j]) = result.chunk_id}}

\* C25: when the dense branch is absent or returns no hits, fusion is skipped:
\* the response is what the finalizer makes of the lexical list itself, every
\* result carrying a score the lexical list gave its chunk; when the dense
\* list has hits, the response is what the finalizer makes of the fused list,
\* and no result carries a retriever's score.
C25_FusionOnlyWithDenseHits ==
    Answered =>
        IF dense_docs = <<>>
        THEN /\ response.results = search_results(bm25_docs, req.language, k)
             /\ \A i \in 1..Len(response.results) :
                   response.results[i].score \in ScoresIn(bm25_docs, response.results[i])
        ELSE /\ response.results =
                   search_results(
                       rrf_merge_documents(<< <<"bm25", bm25_docs>>, <<"dense", dense_docs>> >>),
                       req.language, k)
             /\ \A i \in 1..Len(response.results) :
                   response.results[i].score \notin
                       (ScoresIn(bm25_docs, response.results[i])
                           \cup ScoresIn(dense_docs, response.results[i]))

\* the dense pipeline ran and found nothing; the lexical hits are answered
C25_Witness ==
    /\ Answered
    /\ dense_how = "returned"
    /\ dense_docs = <<>>
    /\ Len(bm25_docs) >= 2
    /\ response.results # <<>>

\* C28: every search request eventually returns: when a branch call never
\* completes, a request-scoped timeout aborts it and the request is answered
\* with what is available.
C28_SearchEventuallyReturns == [](pc \in {"bm25", "dense", "blocked"} => <>(pc = "done"))

\* ------------------------------------------------------------ statements about the lexical branch

Clamp(x, lo, hi) == Min(Max(x, lo), hi)

\* C22: for every final_top_k with 1 <= final_top_k <= max_top_k and every
\* configured floor, _resolve_branch_top_k returns
\* clamp(max(final_top_k, floor), final_top_k, max_top_k), which lies between
\* final_top_k and max_top_k; with a floor <= 0 it returns final_top_k.
C22_BranchTopKPolicy ==
    (branch_pc = "returned" /\ branch_top_k # 0) =>
        /\ 1 <= k /\ k <= settings.max_top_k
        /\ branch_top_k =
              Clamp(Max(k, settings.retrieval_branch_top_k), k, settings.max_top_k)
        /\ k <= branch_top_k
        /\ branch_top_k <= settings.max_top_k
        /\ (settings.retrieval_branch_top_k <= 0) => branch_top_k = k

\* the floor widened final_top_k and max_top_k capped the result
C22_Witness ==
    /\ branch_pc = "returned"
    /\ settings.retrieval_branch_top_k > settings.max_top_k
    /\ k < settings.max_top_k
    /\ branch_top_k = settings.max_top_k

\* the retriever runs of the path that produced bm25_docs
CallsOfPath ==
    LET OfPath(call) == call.by = (IF bm25_how = "pipeline" THEN "pipeline" ELSE "legacy")
    IN SelectSeq(retriever_calls, OfPath)

\* C23: a search with two queries runs the lexical retriever exactly once per
\* query, both runs with the same top_k, which is the value the branch top-k
\* policy resolves; on the pipeline path, the legacy path and the legacy
\* fallback alike.
C23_OneRunPerQueryAtBranchTopK ==
    (branch_pc = "returned" /\ Len(queries) = 2) =>
        /\ Len(CallsOfPath) = 2
        /\ \A q \in 1..2 :
              /\ CallsOfPath[q].query = queries[q]
              /\ CallsOfPath[q].top_k = resolve_branch_top_k(k, settings)

\* C24: for the same queries, the same top_k and the same store, the pipeline
\* path of _run_pipeline_bm25 returns the list _run_legacy_bm25 returns: the
\* same chunk ids in the same order with the same scores.
C24_LegacyEquivalentToPipeline ==
    (branch_pc = "returned" /\ bm25_how = "pipeline") =>
        bm25_docs = run_legacy_bm25(LegacyAnswers(store_hits, queries, k))

\* ------------------------------------------------------------ statements about the boundary

\* C16: whatever top_k the caller supplies (any integer, or none), the request
\* is not rejected, and the k used by search satisfies 1 <= k <= max_top_k.
C16_TopKClampedNotRejected ==
    (pc # "idle" /\ svc.retriever
        /\ ValidQueryOriginal(search_raw.query_original)
        /\ ValidLanguage(search_raw.language)) =>
        /\ response.status # "422"
        /\ pc = "bm25"
        /\ 1 <= k
        /\ k <= settings.max_top_k

\* C16 as the code has it: a top_k outside 1..20 is rejected at the boundary
\* (422, search is not called); with none or one of 1..20 the request is not
\* rejected for its top_k and k = min(top_k or default_top_k, max_top_k), which
\* is at most max_top_k and, with both settings at least 1, at least 1.
C16_TopKValidatedThenClamped ==
    (pc # "idle") =>
        /\ ~ValidTopK(search_raw.top_k) =>
              (pc = "done" /\ response.status = "422" /\ queries = <<>>)
        /\ (Validates(search_raw) /\ svc.retriever) =>
              /\ pc = "bm25"
              /\ response.status # "422"
              /\ k = Min(IF search_raw.top_k = <<>> THEN settings.default_top_k
                         ELSE search_raw.top_k[1], settings.max_top_k)
              /\ k <= settings.max_top_k
              /\ (settings.default_top_k >= 1 /\ settings.max_top_k >= 1) => k >= 1

\* a top_k of 20 was accepted and clamped to max_top_k
C16_Witness ==
    /\ pc = "bm25"
    /\ search_raw.top_k = <<20>>
    /\ k = settings.max_top_k
    /\ k < 20

\* C19: a request whose query_original is empty, or empty once trimmed, is
\* rejected at the boundary: search never goes on to the retrievers with an
\* empty query string.
C19_EmptyQueryRejected ==
    /\ (pc # "idle" /\ svc.retriever /\ Strip(search_raw.query_original) = "") =>
          (pc = "done" /\ response.status = "422")
    /\ (pc = "bm25") => \A i \in 1..Len(queries) : queries[i] # ""

\* ------------------------------------------------------------ statements about the configuration

\* every dense handle is set and no dense warning was recorded
DenseBuilt(h) ==
    /\ h.query_embedder
    /\ h.document_embedder
    /\ h.dense_retriever
    /\ h.pipeline_dense_single
    /\ h.pipeline_dense_dual
    /\ ~h.dense_warning

\* the spellings of 1, true, yes and on among the values considered
TruthySpellings == {"1", "true", "yes", "on", " TRUE ", "Yes"}

\* C20: the dense pipeline handles are non-null, a dense pipeline is run and
\* dense results exist only if dense retrieval is enabled in the settings and
\* the whole dense section of the initialisation succeeded; with nothing set
\* in the environment dense retrieval is disabled, and it is enabled only by a
\* RETRIEVAL_DENSE_ENABLED that spells 1, true, yes or on.
C20_DenseOnlyWhenEnabledAndBuilt ==
    (config_pc \in {"loaded", "constructed", "searched"}) =>
        /\ (svc.pipeline_dense_single \/ svc.pipeline_dense_dual) =>
              (settings.retrieval_dense_enabled /\ DenseBuilt(svc))
        /\ (dense_how \in {"returned", "raised"} \/ dense_docs # <<>>) =>
              (settings.retrieval_dense_enabled /\ DenseBuilt(svc))
        /\ (environ = NoEnvironment) => ~settings.retrieval_dense_enabled
        /\ settings.retrieval_dense_enabled <=>
              (environ.RETRIEVAL_DENSE_ENABLED \in TruthySpellings)

\* RETRIEVAL_DENSE_ENABLED=" TRUE " enabled dense retrieval, the dense section
\* succeeded and the dense pipeline returned hits
C20_Witness ==
    /\ config_pc = "searched"
    /\ environ.RETRIEVAL_DENSE_ENABLED = " TRUE "
    /\ DenseBuilt(svc)
    /\ dense_how = "returned"
    /\ dense_docs # <<>>

\* ------------------------------------------------------------ specifications

\* _chunk_text applied to every bounded input
ChunkNext ==
    \/ ChunkEnter /\ UNCHANGED <<rrf_vars, legacy_vars, corpus_vars, service_vars, index_vars, boundary_vars, config_vars, branch_vars, thread_vars>>
    \/ ChunkIterate /\ UNCHANGED <<rrf_vars, legacy_vars, corpus_vars, service_vars, index_vars, boundary_vars, config_vars, branch_vars, thread_vars>>

ChunkSpecInit == ChunkInit /\ RRFIdle /\ LegacyIdle /\ CorpusIdle /\ ServiceIdle /\ IndexIdle /\ BoundaryIdle /\ ConfigIdle
        /\ BranchIdle /\ ThreadIdle

SpecChunk == ChunkSpecInit /\ [][ChunkNext]_vars

\* the same, for termination: the thread that runs _chunk_text keeps running
SpecChunkLive == ChunkSpecInit /\ [][ChunkNext]_vars /\ WF_vars(ChunkNext)

\* _rrf_merge_documents applied to every bounded pair of ranked lists
RRFNext == RRFMerge /\ UNCHANGED <<chunk_vars, legacy_vars, corpus_vars, service_vars, index_vars, boundary_vars, config_vars, branch_vars, thread_vars>>

RRFSpecInit == RRFInit /\ ChunkIdle /\ LegacyIdle /\ CorpusIdle /\ ServiceIdle /\ IndexIdle /\ BoundaryIdle /\ ConfigIdle
        /\ BranchIdle /\ ThreadIdle

SpecRRF == RRFSpecInit /\ [][RRFNext]_vars

\* _run_legacy_bm25 applied to every bounded set of retriever answers
LegacyNext == LegacyRun /\ UNCHANGED <<chunk_vars, rrf_vars, corpus_vars, service_vars, index_vars, boundary_vars, config_vars, branch_vars, thread_vars>>

LegacySpecInit == LegacyInit /\ ChunkIdle /\ RRFIdle /\ CorpusIdle /\ ServiceIdle /\ IndexIdle /\ BoundaryIdle /\ ConfigIdle
        /\ BranchIdle /\ ThreadIdle

SpecLegacy == LegacySpecInit /\ [][LegacyNext]_vars

\* load_corpus_records and build_chunk_records applied to every bounded file
CorpusNext ==
    \/ CorpusLoad /\ UNCHANGED <<chunk_vars, rrf_vars, legacy_vars, service_vars, index_vars, boundary_vars, config_vars, branch_vars, thread_vars>>
    \/ CorpusBuild /\ UNCHANGED <<chunk_vars, rrf_vars, legacy_vars, service_vars, index_vars, boundary_vars, config_vars, branch_vars, thread_vars>>

CorpusSpecInit ==
    CorpusInit /\ ChunkIdle /\ RRFIdle /\ LegacyIdle /\ ServiceIdle /\ IndexIdle /\ BoundaryIdle /\ ConfigIdle
        /\ BranchIdle /\ ThreadIdle

SpecCorpus == CorpusSpecInit /\ [][CorpusNext]_vars

\* the service: construction, then index and health requests one after another
IndexNext ==
    \/ IndexCall /\ UNCHANGED <<chunk_vars, rrf_vars, legacy_vars, corpus_vars, boundary_vars, config_vars, branch_vars, thread_vars>>
    \/ IndexReset /\ UNCHANGED <<chunk_vars, rrf_vars, legacy_vars, corpus_vars, boundary_vars, config_vars, branch_vars, thread_vars>>
    \/ IndexWrite /\ UNCHANGED <<chunk_vars, rrf_vars, legacy_vars, corpus_vars, boundary_vars, config_vars, branch_vars, thread_vars>>
    \/ IndexRespond /\ UNCHANGED <<chunk_vars, rrf_vars, legacy_vars, corpus_vars, boundary_vars, config_vars, branch_vars, thread_vars>>
    \/ HealthCall /\ UNCHANGED <<chunk_vars, rrf_vars, legacy_vars, corpus_vars, boundary_vars, config_vars, branch_vars, thread_vars>>
    \/ HealthRespond /\ UNCHANGED <<chunk_vars, rrf_vars, legacy_vars, corpus_vars, boundary_vars, config_vars, branch_vars, thread_vars>>

IndexSpecInit ==
    ServiceInit /\ IndexInit /\ ChunkIdle /\ RRFIdle /\ LegacyIdle /\ CorpusIdle /\ BoundaryIdle /\ ConfigIdle
        /\ BranchIdle /\ ThreadIdle

SpecIndex == IndexSpecInit /\ [][IndexNext]_vars

\* the lexical branch of a search, run against every bounded store
BranchNext == BranchRun /\ UNCHANGED <<chunk_vars, rrf_vars, legacy_vars, corpus_vars, index_vars, boundary_vars, config_vars, thread_vars>>

BranchSpecInit ==
    BranchInit /\ ChunkIdle /\ RRFIdle /\ LegacyIdle /\ CorpusIdle /\ IndexIdle /\ BoundaryIdle
        /\ ConfigIdle /\ ThreadIdle

SpecBranch == BranchSpecInit /\ [][BranchNext]_vars

\* the process: the environment, the settings, construction, a dense branch
ConfigNext ==
    \/ ConfigLoad /\ UNCHANGED <<chunk_vars, rrf_vars, legacy_vars, corpus_vars, index_vars, boundary_vars, branch_vars, thread_vars>>
    \/ ConfigConstruct /\ UNCHANGED <<chunk_vars, rrf_vars, legacy_vars, corpus_vars, index_vars, boundary_vars, branch_vars, thread_vars>>
    \/ ConfigDense /\ UNCHANGED <<chunk_vars, rrf_vars, legacy_vars, corpus_vars, index_vars, boundary_vars, branch_vars, thread_vars>>

ConfigSpecInit ==
    ConfigInit /\ ChunkIdle /\ RRFIdle /\ LegacyIdle /\ CorpusIdle /\ IndexIdle /\ BoundaryIdle
        /\ BranchIdle /\ ThreadIdle

SpecConfig == ConfigSpecInit /\ [][ConfigNext]_vars

\* the service: construction, then a body received at /search
BoundaryNext ==
    SearchReceive
        /\ UNCHANGED <<chunk_vars, rrf_vars, legacy_vars, corpus_vars, index_vars, config_vars, branch_vars, thread_vars>>

BoundarySpecInit ==
    ServiceInit /\ BoundaryIdle /\ ChunkIdle /\ RRFIdle /\ LegacyIdle /\ CorpusIdle /\ IndexIdle
        /\ ConfigIdle
        /\ BranchIdle /\ ThreadIdle

SpecBoundary == BoundarySpecInit /\ [][BoundaryNext]_vars

\* the service: construction, then search requests one after another
Next ==
    \/ SearchCall /\ UNCHANGED <<chunk_vars, rrf_vars, legacy_vars, corpus_vars, index_vars, boundary_vars, config_vars, branch_vars, thread_vars>>
    \/ RunBM25 /\ UNCHANGED <<chunk_vars, rrf_vars, legacy_vars, corpus_vars, index_vars, boundary_vars, config_vars, branch_vars, thread_vars>>
    \/ RunDense /\ UNCHANGED <<chunk_vars, rrf_vars, legacy_vars, corpus_vars, index_vars, boundary_vars, config_vars, branch_vars, thread_vars>>
    \/ Respond /\ UNCHANGED <<chunk_vars, rrf_vars, legacy_vars, corpus_vars, index_vars, boundary_vars, config_vars, branch_vars, thread_vars>>

Init ==
    ServiceInit /\ ChunkIdle /\ RRFIdle /\ LegacyIdle /\ CorpusIdle /\ IndexIdle /\ BoundaryIdle /\ ConfigIdle
        /\ BranchIdle /\ ThreadIdle

Spec == Init /\ [][Next]_vars

\* searches on the service with every pipeline built, with calls that may
\* never return; the worker thread of a request keeps running whenever it can
LiveInit ==
    /\ Init
    /\ settings.retrieval_dense_enabled
    /\ svc.pipeline_single
    /\ svc.pipeline_dense_single

LiveNext ==
    \/ Next
    \/ CallBlocks /\ UNCHANGED <<chunk_vars, rrf_vars, legacy_vars, corpus_vars, index_vars, boundary_vars, config_vars, branch_vars, thread_vars>>

SpecLive == LiveInit /\ [][LiveNext]_vars /\ WF_vars(LiveNext)

\* two search requests running at once on one constructed service
ThreadNext ==
    \/ (\E t \in Threads : ThreadCall(t)) /\ UNCHANGED <<chunk_vars, rrf_vars, legacy_vars, corpus_vars, service_vars, index_vars, boundary_vars, config_vars, branch_vars>>
    \/ (\E t \in Threads : ThreadBM25(t)) /\ UNCHANGED <<chunk_vars, rrf_vars, legacy_vars, corpus_vars, service_vars, index_vars, boundary_vars, config_vars, branch_vars>>
    \/ (\E t \in Threads : ThreadDense(t)) /\ UNCHANGED <<chunk_vars, rrf_vars, legacy_vars, corpus_vars, service_vars, index_vars, boundary_vars, config_vars, branch_vars>>
    \/ (\E t \in Threads : ThreadMerge(t)) /\ UNCHANGED <<chunk_vars, rrf_vars, legacy_vars, corpus_vars, service_vars, index_vars, boundary_vars, config_vars, branch_vars>>
    \/ (\E t \in Threads : ThreadFinalize(t)) /\ UNCHANGED <<chunk_vars, rrf_vars, legacy_vars, corpus_vars, service_vars, index_vars, boundary_vars, config_vars, branch_vars>>

ThreadSpecInit ==
    ThreadInit /\ ChunkIdle /\ RRFIdle /\ LegacyIdle /\ CorpusIdle /\ IndexIdle /\ BoundaryIdle
        /\ ConfigIdle /\ BranchIdle

SpecThreads == ThreadSpecInit /\ [][ThreadNext]_vars

====
